---- MODULE Spec2Model ----
(***************************************************************************)
(* Model of the tournament-team extraction tool: the ETag caching fetcher, *)
(* the reference-data cache with its alias maps, the species alias index   *)
(* build, the concurrent extraction pipeline and its two worker pools.     *)
(***************************************************************************)
EXTENDS Integers, Sequences, FiniteSets, TLC

VARIABLES
    file,       \* the local copy: [exists, data]
    etagFile,   \* the ETag sidecar: its text (an ETag or EmptyEtag), or NoEtag when missing
    srv,        \* the remote resource: [body, sendsEtag]
    dl,         \* the frame of the current / last _download_file call
    prev,       \* summary of the call before it
    ncalls,     \* calls started
    changes,    \* changes of the remote resource so far
    dataRemote, \* reference data: the payload each remote resource serves
    dataDisk,   \* reference data: the payload in each local file (NoData: no file)
    dataCache,  \* showdown_data_manager._DATA_CACHE
    aliasCache, \* showdown_data_manager._ALIAS_CACHE
    lastResolve,\* the last resolve_*_id call: [kind, label, result]
    lastLoad,   \* what the last load_showdown_data call returned, if it did
    loadCalls,  \* the calls made to the data manager so far
    dataChanges,\* changes of the remote reference data so far
    pokedexIn,  \* alias build: the pokedex handed to _build_species_alias_map
    impl,       \* alias build: which implementation runs
    pos,        \* alias build: entries processed so far
    aliasMap,   \* alias build: the alias_map under construction
    replaced,   \* alias build: whether an insertion replaced a mapping
    pipePc,     \* pipeline: where run_pipeline stands
    pipeErr,    \* pipeline: the kind of exception that left run_pipeline
    showdown,   \* pipeline: the ShowdownData object handed to the workers
    task,       \* pipeline: per tournament, the state of process_tournament
    gathered,   \* pipeline: tournaments whose future the collector consumed
    results,    \* pipeline: the aggregate of process_tournaments
    query,      \* query: the operation called, with its dataset and arguments
    qDone,      \* query: whether the call has returned
    answer,     \* query: what the call returned
    pool,       \* pools: where process_tournaments stands, the pool sizes
    worker      \* pools: per tournament, its process_tournament call and conversions

fetchVars == <<file, etagFile, srv, dl, prev, ncalls, changes>>
loadVars ==
    <<dataRemote, dataDisk, dataCache, aliasCache, lastResolve, lastLoad, loadCalls,
     dataChanges>>

aliasVars == <<pokedexIn, impl, pos, aliasMap, replaced>>

pipeVars == <<pipePc, pipeErr, showdown, task, gathered, results>>

queryVars == <<query, qDone, answer>>

poolVars == <<pool, worker>>

vars == <<fetchVars, loadVars, aliasVars, pipeVars, queryVars, poolVars>>

\* What the actions of one component leave alone.
notFetch == <<loadVars, aliasVars, pipeVars, queryVars, poolVars>>
notLoad == <<fetchVars, aliasVars, pipeVars, queryVars, poolVars>>
notAlias == <<fetchVars, loadVars, pipeVars, queryVars, poolVars>>
notPipe == <<fetchVars, loadVars, aliasVars, queryVars, poolVars>>
notQuery == <<fetchVars, loadVars, aliasVars, pipeVars, poolVars>>
notPool == <<fetchVars, loadVars, aliasVars, pipeVars, queryVars>>

(***************************************************************************)
(* Bounds                                                                  *)
(***************************************************************************)
MaxCalls == 2
MaxChanges == 1
MaxDataChanges == 1
MaxLoadCalls == 3
MaxRecords == 3
MaxPlayers == 2
MaxMoves == 3
MaxSlots == 2
MaxIdLen == 3
MaxWorkers == 2
MaxCpus == 3

(***************************************************************************)
(* Caching fetcher: pokedata_cache_manager._download_file (and its copies  *)
(* in showdown_data_manager, showdown_manager, species_resolver,           *)
(* move_resolver).                                                         *)
(***************************************************************************)
NoEtag == "none"
\* A sidecar that exists and holds no text: _read_etag returns ''.
EmptyEtag == ""
Etags == {"e1", "e2"}

BodyA == <<1, 2>>
BodyB == <<3, 4>>
BodyMulti == <<5>>          \* body of a 300 Multiple Choices answer
Bodies == {BodyA, BodyB}

EtagOf(body) == IF body = BodyA THEN "e1" ELSE "e2"

NoFile == [exists |-> FALSE, data |-> <<>>]
FileOf(data) == [exists |-> TRUE, data |-> data]

\* Response statuses; TransportError stands for an exception raised by the
\* session instead of a response.
TransportError == -1
NoResp == [status |-> 0, body |-> <<>>, etag |-> NoEtag]
Resp(status, body, etag) == [status |-> status, body |-> body, etag |-> etag]

\* Python truthiness of an Optional[str] ETag: None and '' are falsy.
Truthy(e) == e \notin {NoEtag, EmptyEtag}

ServerEtag == IF srv.sendsEtag THEN EtagOf(srv.body) ELSE NoEtag

\* What the server can answer to a GET carrying If-None-Match = inm
\* (NoEtag: no such header).
GetResponses(inm) ==
    {Resp(TransportError, <<>>, NoEtag),
     Resp(500, <<>>, NoEtag),
     Resp(300, BodyMulti, NoEtag),
     Resp(200, srv.body, ServerEtag)}
    \cup (IF Truthy(inm) /\ inm = ServerEtag
          THEN {Resp(304, <<>>, ServerEtag)} ELSE {})

\* requests.Response.raise_for_status: raises for 4xx and 5xx only.
RaisesForStatus(status) == status >= 400 /\ status < 600

\* line 50: if remote_etag and local_etag == remote_etag: return local_path
CacheHit_NeverHits(remote, local) == FALSE
CacheHit(remote, local) == Truthy(remote) /\ local = remote

\* lines 58-60: the If-None-Match header of the GET
IfNoneMatch(f, local) == IF ~f /\ Truthy(local) THEN local ELSE NoEtag

\* line 63: if response.status_code == 304 and local_path.exists()
KeepLocalOn304_Missing(status, exists) == FALSE
KeepLocalOn304(status, exists) == status = 304 /\ exists

\* line 69: new_etag = response.headers.get("ETag") or remote_etag
NewEtag(respEtag, remote) == IF Truthy(respEtag) THEN respEtag ELSE remote

\* lines 70-71: if new_etag: _write_etag(local_path, new_etag)
SidecarAfter(newEtag, old) == IF Truthy(newEtag) THEN newEtag ELSE old

\* line 68: local_path.write_bytes(response.content)
WrittenBytes(old, body) == body

Prefixes(s) == {SubSeq(s, 1, n) : n \in 0..(Len(s) - 1)}

IdleFrame ==
    [pc |-> "idle", force |-> FALSE, local_etag |-> NoEtag,
     remote_etag |-> NoEtag, headRes |-> "none", sent |-> FALSE,
     inm |-> NoEtag, response |-> NoResp, gets |-> 0,
     preFile |-> NoFile, preEtag |-> NoEtag, ret |-> NoFile,
     startChanges |-> 0]

NoCall == [force |-> FALSE, pc |-> "none", gets |-> 0, ret |-> NoFile,
           startChanges |-> 0]

Finished == dl.pc \in {"idle", "done", "failed", "interrupted"}

FetchStart ==
    /\ file = NoFile
    /\ etagFile = NoEtag
    /\ srv \in [body : Bodies, sendsEtag : BOOLEAN]
    /\ dl = IdleFrame
    /\ prev = NoCall
    /\ ncalls = 0
    /\ changes = 0

\* lines 40-45: entry of _download_file: read the sidecar, choose HEAD or GET
Call(f) ==
    /\ Finished
    /\ ncalls < MaxCalls
    /\ ncalls' = ncalls + 1
    /\ prev' = IF dl.pc = "idle" THEN NoCall
               ELSE [force |-> dl.force, pc |-> dl.pc, gets |-> dl.gets,
                     ret |-> dl.ret, startChanges |-> dl.startChanges]
    /\ dl' = [IdleFrame EXCEPT
                !.pc = IF ~f /\ file.exists THEN "head" ELSE "get",
                !.force = f,
                !.local_etag = etagFile,
                !.preFile = file,
                !.preEtag = etagFile,
                !.startChanges = changes]
    /\ UNCHANGED <<file, etagFile, srv, changes>>
    /\ UNCHANGED notFetch

\* lines 46-56: the HEAD freshness probe
HeadProbe ==
    /\ dl.pc = "head"
    /\ \E ok \in BOOLEAN :
         IF ok
         THEN LET remote == ServerEtag IN
              IF CacheHit(remote, dl.local_etag)
              THEN dl' = [dl EXCEPT !.pc = "done", !.headRes = "ok",
                                    !.remote_etag = remote, !.ret = file]
              ELSE dl' = [dl EXCEPT !.pc = "get", !.headRes = "ok",
                                    !.remote_etag = remote]
         ELSE dl' = [dl EXCEPT !.pc = "get", !.headRes = "fail"]
    /\ UNCHANGED <<file, etagFile, srv, prev, ncalls, changes>>
    /\ UNCHANGED notFetch

\* lines 58-67: the GET, the 304 branch and raise_for_status
Get ==
    /\ dl.pc = "get"
    /\ LET inm == IfNoneMatch(dl.force, dl.local_etag) IN
       \E r \in GetResponses(inm) :
         LET sentFrame == [dl EXCEPT !.sent = TRUE, !.inm = inm,
                                     !.response = r, !.gets = dl.gets + 1] IN
         IF r.status = TransportError
         THEN dl' = [sentFrame EXCEPT !.pc = "failed"]
         ELSE IF KeepLocalOn304(r.status, file.exists)
         THEN dl' = [sentFrame EXCEPT !.pc = "done", !.ret = file]
         ELSE IF RaisesForStatus(r.status)
         THEN dl' = [sentFrame EXCEPT !.pc = "failed"]
         ELSE dl' = [sentFrame EXCEPT !.pc = "write"]
    /\ UNCHANGED <<file, etagFile, srv, prev, ncalls, changes>>
    /\ UNCHANGED notFetch

\* line 68: write_bytes
WriteBytes ==
    /\ dl.pc = "write"
    /\ file' = FileOf(WrittenBytes(file, dl.response.body))
    /\ dl' = [dl EXCEPT !.pc = "write_etag"]
    /\ UNCHANGED <<etagFile, srv, prev, ncalls, changes>>
    /\ UNCHANGED notFetch

\* lines 69-74: persist the ETag and return
WriteEtag ==
    /\ dl.pc = "write_etag"
    /\ etagFile' = SidecarAfter(NewEtag(dl.response.etag, dl.remote_etag), etagFile)
    /\ dl' = [dl EXCEPT !.pc = "done", !.ret = file]
    /\ UNCHANGED <<file, srv, prev, ncalls, changes>>
    /\ UNCHANGED notFetch

\* A user interrupt (or crash) in the middle of a call.  write_bytes opens the
\* file for writing, which truncates it, and then writes: an interrupt while
\* it runs leaves the old file (not yet opened) or any proper prefix of the body.
\* _write_etag is Path.write_text, which truncates the sidecar on open and
\* then writes the ETag: an interrupt while it runs leaves the old sidecar
\* (not yet opened), an empty sidecar (opened, not yet written) or the new one.
Interrupt ==
    /\ dl.pc \in {"head", "get", "write", "write_etag"}
    /\ IF dl.pc = "write"
       THEN \E d \in {file} \cup {FileOf(p) : p \in Prefixes(dl.response.body)} :
              file' = d
       ELSE file' = file
    /\ IF dl.pc = "write_etag" /\ Truthy(NewEtag(dl.response.etag, dl.remote_etag))
       THEN \E e \in {etagFile, EmptyEtag, NewEtag(dl.response.etag, dl.remote_etag)} :
              etagFile' = e
       ELSE etagFile' = etagFile
    /\ dl' = [dl EXCEPT !.pc = "interrupted"]
    /\ UNCHANGED <<srv, prev, ncalls, changes>>
    /\ UNCHANGED notFetch

\* The remote resource changes (new content, or the host starts / stops
\* sending an ETag header).
ServerChange ==
    /\ changes < MaxChanges
    /\ \E s \in [body : Bodies, sendsEtag : BOOLEAN] :
         /\ s # srv
         /\ srv' = s
    /\ changes' = changes + 1
    /\ UNCHANGED <<file, etagFile, dl, prev, ncalls>>
    /\ UNCHANGED notFetch

\* Between two runs the local file is removed from the cache directory
\* while its .etag sidecar stays (line 63 tests local_path.exists() for
\* this case); the next call is the first of its run.
RemoveLocal ==
    /\ Finished
    /\ file.exists
    /\ file' = NoFile
    /\ dl' = IdleFrame
    /\ UNCHANGED <<etagFile, srv, prev, ncalls, changes>>
    /\ UNCHANGED notFetch

FetchNext ==
    \/ \E f \in BOOLEAN : Call(f)
    \/ RemoveLocal
    \/ HeadProbe
    \/ Get
    \/ WriteBytes
    \/ WriteEtag
    \/ Interrupt
    \/ ServerChange

\* The fetcher at rest, for the specifications of the other components.
FetchQuiet ==
    /\ file = NoFile
    /\ etagFile = NoEtag
    /\ srv = [body |-> BodyA, sendsEtag |-> TRUE]
    /\ dl = IdleFrame
    /\ prev = NoCall
    /\ ncalls = 0
    /\ changes = 0

\* An absent string field, or a lookup miss (Python's None)
None == <<>>

(***************************************************************************)
(* Strings are sequences of characters; to_id (showdown_data_manager.py    *)
(* 72-79, and its copies in the other modules).                            *)
(***************************************************************************)
LowerLetters == <<"a", "b", "c", "d", "e", "f", "g", "h", "i", "j", "k", "l", "m", "n", "o", "p", "q", "r", "s", "t", "u", "v", "w", "x", "y", "z">>
UpperLetters == <<"A", "B", "C", "D", "E", "F", "G", "H", "I", "J", "K", "L", "M", "N", "O", "P", "Q", "R", "S", "T", "U", "V", "W", "X", "Y", "Z">>
Digits == {"0", "1", "2", "3", "4", "5", "6", "7", "8", "9"}

\* Characters outside ASCII: e and E with acute accent, the combining acute
\* accent their NFKD decompositions end with, the right single quotation
\* mark, the en dash and the female sign.
NonAscii == {"EACUTE", "UEACUTE", "COMBACUTE", "RSQUO", "ENDASH", "FEMALESIGN"}

SeqToSet(q) == {q[i] : i \in DOMAIN q}

\* unicodedata.normalize("NFKD", value), one character
Decompose(c) ==
    IF c = "EACUTE" THEN <<"e", "COMBACUTE">>
    ELSE IF c = "UEACUTE" THEN <<"E", "COMBACUTE">>
    ELSE <<c>>

RECURSIVE NFKD(_)
NFKD(str) == IF str = <<>> THEN <<>> ELSE Decompose(Head(str)) \o NFKD(Tail(str))

\* .replace(RSQUO, "'")
ReplaceQuote(str) == [i \in DOMAIN str |-> IF str[i] = "RSQUO" THEN "'" ELSE str[i]]

IsAscii(c) == c \notin NonAscii
AlnumChars == SeqToSet(LowerLetters) \cup SeqToSet(UpperLetters) \cup Digits
IsAlnum(c) == c \in AlnumChars

\* str.lower(), one character
LowerOf ==
    [c \in SeqToSet(UpperLetters) |->
        LowerLetters[CHOOSE i \in DOMAIN UpperLetters : UpperLetters[i] = c]]

ToLower(c) ==
    IF c \in DOMAIN LowerOf THEN LowerOf[c]
    ELSE IF c = "UEACUTE" THEN "EACUTE" ELSE c

LowerStr(str) == [i \in DOMAIN str |-> ToLower(str[i])]

\* to_id without its final .lower()
to_id_Unlowered(value) ==
    SelectSeq(SelectSeq(ReplaceQuote(NFKD(value)), IsAscii), IsAlnum)

to_id(value) ==
    LowerStr(SelectSeq(SelectSeq(ReplaceQuote(NFKD(value)), IsAscii), IsAlnum))

IsLowerAlnum(c) == c \in SeqToSet(LowerLetters) \cup Digits

\* tournament_teams_extraction.py 148-157: to_id, which lowers the ASCII
\* text first and then deletes what is not in a-z0-9
tte_to_id(value) ==
    SelectSeq(LowerStr(SelectSeq(NFKD(value), IsAscii)), IsLowerAlnum)

(***************************************************************************)
(* Label normalisation in tournament_teams_extraction.py: str.strip,       *)
(* split_player_name, normalize_move_name, normalize_species_label.        *)
(***************************************************************************)
IsSpace(c) == c = " "

RECURSIVE LStrip(_)
LStrip(str) == IF str # <<>> /\ IsSpace(Head(str)) THEN LStrip(Tail(str)) ELSE str

RECURSIVE RStrip(_)
RStrip(str) ==
    IF str # <<>> /\ IsSpace(str[Len(str)])
    THEN RStrip(SubSeq(str, 1, Len(str) - 1)) ELSE str

\* str.strip()
Strip(str) == LStrip(RStrip(str))

\* str.upper(), one character
UpperOf ==
    [c \in SeqToSet(LowerLetters) |->
        UpperLetters[CHOOSE i \in DOMAIN LowerLetters : LowerLetters[i] = c]]

ToUpper(c) ==
    IF c \in DOMAIN UpperOf THEN UpperOf[c]
    ELSE IF c = "EACUTE" THEN "UEACUTE" ELSE c

\* str.capitalize()
Capitalize(str) ==
    [i \in DOMAIN str |-> IF i = 1 THEN ToUpper(str[i]) ELSE ToLower(str[i])]

\* The maximal runs of characters of keep, in order (re.split on the other
\* characters, empty pieces dropped; str.split on whitespace).
RECURSIVE SplitRuns(_, _)
SplitRuns(str, keep) ==
    IF str = <<>> THEN <<>>
    ELSE IF Head(str) \notin keep THEN SplitRuns(Tail(str), keep)
    ELSE LET n == CHOOSE k \in 1..Len(str) :
                    /\ \A i \in 1..k : str[i] \in keep
                    /\ (k = Len(str) \/ str[k + 1] \notin keep)
         IN <<SubSeq(str, 1, n)>> \o SplitRuns(SubSeq(str, n + 1, Len(str)), keep)

RECURSIVE Join(_, _)
Join(parts, sep) ==
    IF parts = <<>> THEN <<>>
    ELSE IF Len(parts) = 1 THEN parts[1]
    ELSE parts[1] \o sep \o Join(Tail(parts), sep)

\* lines 242-248: split_player_name, the name part
split_player_name(raw_name) ==
    LET s == Strip(raw_name)
        n == Len(s)
    IN IF /\ n >= 5
          /\ s[n] = "]"
          /\ s[n - 3] = "["
          /\ s[n - 2] \in SeqToSet(UpperLetters)
          /\ s[n - 1] \in SeqToSet(UpperLetters)
       THEN Strip(SubSeq(s, 1, n - 4))
       ELSE s

\* lines 69-75
MOVE_STRIP_WORDS == {<<"d", "o", "u", "b", "l", "e", "s">>, <<"s", "i", "n", "g", "l", "e", "s">>, <<"t", "r", "i", "p", "l", "e", "s">>, <<"b", "a", "t", "t", "l", "e">>, <<"m", "o", "d", "e">>}

LowerAlnumChars == SeqToSet(LowerLetters) \cup Digits

\* lines 251-258: normalize_move_name
normalize_move_name(name) ==
    LET text == LowerStr(NFKD(name))
        tokens == SelectSeq(SplitRuns(text, LowerAlnumChars),
                            LAMBDA tok : tok \notin MOVE_STRIP_WORDS)
    IN Join(tokens, <<>>)

\* lines 160-202: the descriptor words and what they become
DESCRIPTOR_TOKEN_MAP ==
    <<"s", "h", "a", "d", "o", "w">> :> <<"S", "h", "a", "d", "o", "w">> @@
    <<"i", "c", "e">> :> <<"I", "c", "e">> @@
    <<"t", "h", "e", "r", "i", "a", "n">> :> <<"T", "h", "e", "r", "i", "a", "n">> @@
    <<"a", "t", "t", "a", "c", "k">> :> <<"A", "t", "t", "a", "c", "k">> @@
    <<"d", "e", "f", "e", "n", "s", "e">> :> <<"D", "e", "f", "e", "n", "s", "e">> @@
    <<"s", "p", "e", "e", "d">> :> <<"S", "p", "e", "e", "d">> @@
    <<"m", "i", "d", "n", "i", "g", "h", "t">> :> <<"M", "i", "d", "n", "i", "g", "h", "t">> @@
    <<"m", "i", "d", "d", "a", "y">> :> <<"M", "i", "d", "d", "a", "y">> @@
    <<"d", "u", "s", "k">> :> <<"D", "u", "s", "k">> @@
    <<"d", "a", "w", "n">> :> <<"D", "a", "w", "n">> @@
    <<"w", "i", "n", "g", "s">> :> <<"W", "i", "n", "g", "s">> @@
    <<"m", "a", "n", "e">> :> <<"M", "a", "n", "e">> @@
    <<"o", "r", "i", "g", "i", "n">> :> <<"O", "r", "i", "g", "i", "n">> @@
    <<"h", "e", "r", "o">> :> <<"H", "e", "r", "o">> @@
    <<"a", "q", "u", "a">> :> <<"A", "q", "u", "a">> @@
    <<"b", "l", "a", "z", "e">> :> <<"B", "l", "a", "z", "e">> @@
    <<"s", "k", "y">> :> <<"S", "k", "y">> @@
    <<"p", "a", "l", "d", "e", "a", "n">> :> <<"P", "a", "l", "d", "e", "a">> @@
    <<"p", "a", "l", "d", "e", "a">> :> <<"P", "a", "l", "d", "e", "a">> @@
    <<"g", "a", "l", "a", "r", "i", "a", "n">> :> <<"G", "a", "l", "a", "r">> @@
    <<"g", "a", "l", "a", "r">> :> <<"G", "a", "l", "a", "r">> @@
    <<"a", "l", "o", "l", "a", "n">> :> <<"A", "l", "o", "l", "a">> @@
    <<"a", "l", "o", "l", "a">> :> <<"A", "l", "o", "l", "a">> @@
    <<"h", "i", "s", "u", "i", "a", "n">> :> <<"H", "i", "s", "u", "i">> @@
    <<"h", "i", "s", "u", "i">> :> <<"H", "i", "s", "u", "i">> @@
    <<"f", "e", "m", "a", "l", "e">> :> <<"F">> @@
    <<"m", "a", "l", "e">> :> <<"M">> @@
    <<"u", "n", "r", "e", "m", "a", "r", "k", "a", "b", "l", "e">> :> <<"U", "n", "r", "e", "m", "a", "r", "k", "a", "b", "l", "e">> @@
    <<"f", "a", "m", "i", "l", "y">> :> <<"F", "a", "m", "i", "l", "y">> @@
    <<"b", "r", "e", "e", "d">> :> <<>> @@
    <<"s", "t", "y", "l", "e">> :> <<>> @@
    <<"f", "o", "r", "m">> :> <<>> @@
    <<"f", "o", "r", "m", "e">> :> <<>> @@
    <<"a", "s", "p", "e", "c", "t">> :> <<>> @@
    <<"r", "i", "d", "e", "r">> :> <<>> @@
    <<"o", "f">> :> <<>> @@
    <<"t", "h", "e">> :> <<>> @@
    <<"i", "n", "c", "a", "r", "n", "a", "t", "e">> :> <<>> @@
    <<"s", "t", "a", "n", "d", "a", "r", "d">> :> <<>> @@
    <<"s", "i", "n", "g", "l", "e">> :> <<"S", "i", "n", "g", "l", "e">> @@
    <<"s", "t", "r", "i", "k", "e">> :> <<"S", "t", "r", "i", "k", "e">>

\* The characters the pattern \w matches
WordChars ==
    SeqToSet(LowerLetters) \cup SeqToSet(UpperLetters) \cup Digits
        \cup {"_", "EACUTE", "UEACUTE"}

\* lines 218-224: the descriptor words, mapped, the dropped ones left out
RECURSIVE MapDescriptorTokens(_)
MapDescriptorTokens_Capitalized(tokens) ==
    [i \in DOMAIN tokens |-> Capitalize(tokens[i])]
MapDescriptorTokens(tokens) ==
    IF tokens = <<>> THEN <<>>
    ELSE LET tok == Head(tokens)
             rest == MapDescriptorTokens(Tail(tokens))
         IN IF tok \notin DOMAIN DESCRIPTOR_TOKEN_MAP THEN <<Capitalize(tok)>> \o rest
            ELSE IF DESCRIPTOR_TOKEN_MAP[tok] # <<>>
                 THEN <<DESCRIPTOR_TOKEN_MAP[tok]>> \o rest
                 ELSE rest

\* lines 227-237: Dawn or Dusk followed by Wings or Mane become one word
RECURSIVE CombineTokens(_)
CombineTokens(tokens) ==
    IF tokens = <<>> THEN <<>>
    ELSE IF /\ Head(tokens) \in {<<"D", "a", "w", "n">>, <<"D", "u", "s", "k">>}
            /\ Len(tokens) > 1
            /\ tokens[2] \in {<<"W", "i", "n", "g", "s">>, <<"M", "a", "n", "e">>}
         THEN <<tokens[1] \o <<"-">> \o tokens[2]>> \o CombineTokens(Tail(Tail(tokens)))
         ELSE <<Head(tokens)>> \o CombineTokens(Tail(tokens))

RECURSIVE RStripBracket(_)
RStripBracket(str) ==
    IF str # <<>> /\ str[Len(str)] = "]"
    THEN RStripBracket(SubSeq(str, 1, Len(str) - 1)) ELSE str

\* lines 205-239: normalize_species_label
normalize_species_label(raw) ==
    LET label == Strip(raw) IN
    IF "[" \notin SeqToSet(label) \/ "]" \notin SeqToSet(label) THEN label
    ELSE LET open == CHOOSE i \in DOMAIN label :
                        label[i] = "[" /\ \A j \in 1..(i - 1) : label[j] # "["
             base == SubSeq(label, 1, open - 1)
             descriptor == Strip(RStripBracket(SubSeq(label, open + 1, Len(label))))
             mapped == MapDescriptorTokens(SplitRuns(LowerStr(descriptor), WordChars))
         IN IF descriptor = <<>> \/ mapped = <<>> THEN Strip(base)
            ELSE Strip(base) \o <<"-">> \o Join(CombineTokens(mapped), <<"-">>)

(***************************************************************************)
(* Approximate matching: difflib.get_close_matches(token, keys, n=1,       *)
(* cutoff=0.72) as the resolvers call it.                                  *)
(***************************************************************************)
MinOf(x, y) == IF x <= y THEN x ELSE y

\* Length of the common run of a from i and b from j
CommonRun(a, b, i, j) ==
    LET top == MinOf(Len(a) - i + 1, Len(b) - j + 1) IN
    CHOOSE k \in 0..top :
        /\ \A d \in 0..(k - 1) : a[i + d] = b[j + d]
        /\ (k = top \/ a[i + k] # b[j + k])

\* SequenceMatcher.find_longest_match: the longest block, the earliest in a
\* and then the earliest in b
LongestMatch(a, b) ==
    LET At(runs, best, i) ==
            [i |-> i,
             j |-> CHOOSE y \in DOMAIN b :
                      /\ runs[<<i, y>>] = best
                      /\ \A y2 \in 1..(y - 1) : runs[<<i, y2>>] # best,
             size |-> best]
        Longest(runs, best) ==
            At(runs, best,
               CHOOSE x \in DOMAIN a :
                  /\ \E y \in DOMAIN b : runs[<<x, y>>] = best
                  /\ \A x2 \in 1..(x - 1) : \A y \in DOMAIN b : runs[<<x2, y>>] # best)
        Among(runs) ==
            Longest(runs, CHOOSE k \in {runs[p] : p \in DOMAIN runs} :
                              \A p \in DOMAIN runs : runs[p] <= k)
    IN Among([p \in (DOMAIN a) \X (DOMAIN b) |-> CommonRun(a, b, p[1], p[2])])

\* SequenceMatcher.get_matching_blocks: the number of matched characters
RECURSIVE MatchCount(_, _)
MatchCount(a, b) ==
    IF a = <<>> \/ b = <<>> THEN 0
    ELSE LET Around(m) ==
                 IF m.size = 0 THEN 0
                 ELSE m.size
                      + MatchCount(SubSeq(a, 1, m.i - 1), SubSeq(b, 1, m.j - 1))
                      + MatchCount(SubSeq(a, m.i + m.size, Len(a)),
                                   SubSeq(b, m.j + m.size, Len(b)))
         IN Around(LongestMatch(a, b))

\* The cutoff 0.72 of the resolvers, in hundredths
CutoffPercent == 72

\* SequenceMatcher.ratio() >= cutoff, for seq1 = key and seq2 = word
CloseEnough(key, word) ==
    /\ Len(key) + Len(word) > 0
    /\ 200 * MatchCount(key, word) >= CutoffPercent * (Len(key) + Len(word))

\* ratio(k1) < ratio(k2) against the same word
RatioLess(k1, k2, word) ==
    MatchCount(k1, word) * (Len(k2) + Len(word))
        < MatchCount(k2, word) * (Len(k1) + Len(word))

RatioEqual(k1, k2, word) ==
    MatchCount(k1, word) * (Len(k2) + Len(word))
        = MatchCount(k2, word) * (Len(k1) + Len(word))

\* The ASCII characters of the model in code point order
CodePointOrder ==
    <<" ", "'", "(", ")", "-", ".">>
    \o <<"0", "1", "2", "3", "4", "5", "6", "7", "8", "9">>
    \o UpperLetters \o <<"[", "]", "_">> \o LowerLetters
CharRank == [c \in SeqToSet(CodePointOrder) |->
                CHOOSE i \in DOMAIN CodePointOrder : CodePointOrder[i] = c]

\* s < t, the order of str
StrLess(s, t) ==
    \E n \in 0..MinOf(Len(s), Len(t)) :
        /\ \A d \in 1..n : s[d] = t[d]
        /\ \/ (n = Len(s) /\ n < Len(t))
           \/ (n < Len(s) /\ n < Len(t) /\ CharRank[s[n + 1]] < CharRank[t[n + 1]])

\* difflib.get_close_matches(word, keys, n=1, cutoff=0.72): the key of the
\* greatest (ratio, key) pair, None when no key reaches the cutoff
get_close_match_NoCutoff(word, keys) ==
    IF keys = {} THEN None
    ELSE CHOOSE k \in keys :
            \A k2 \in keys \ {k} :
                \/ RatioLess(k2, k, word)
                \/ (RatioEqual(k2, k, word) /\ StrLess(k2, k))
get_close_match(word, keys) ==
    LET Best(close) ==
            IF close = {} THEN None
            ELSE CHOOSE k \in close :
                    \A k2 \in close \ {k} :
                        \/ RatioLess(k2, k, word)
                        \/ (RatioEqual(k2, k, word) /\ StrLess(k2, k))
    IN Best({k \in keys : CloseEnough(k, word)})

(***************************************************************************)
(* Reference data: showdown_data_manager._load_dataset, _get_alias_map and *)
(* the resolve_*_id functions.                                             *)
(***************************************************************************)
Entry(id, name, base, forme) ==
    [id |-> id, name |-> name, baseSpecies |-> base, forme |-> forme,
     otherFormes |-> <<>>, formeOrder |-> <<>>, cosmeticFormes |-> <<>>,
     aliases |-> <<>>, shortDesc |-> <<>>, isNonstandard |-> None, tags |-> <<>>]

\* lines 20-57: the resources of SHOWDOWN_FILES, in the order of the dict
LoadOrder ==
    <<"pokedex", "moves", "items", "abilities", "learnsets", "formats_data", "formats">>
DataNames == SeqToSet(LoadOrder)
\* lines 62-67: the keys of _ALIAS_CACHE
Kinds == {"species", "moves", "items", "abilities"}

\* A format of the formats list; id None stands for an absent id.
Format(name, id, gameType, banlist) ==
    [name |-> name, id |-> id, gameType |-> gameType, banlist |-> banlist]

\* lines 250, 268-272: the loader _get_alias_map uses for a kind
DataNameOf(kind) == IF kind = "species" THEN "pokedex" ELSE kind

\* tournament_teams_extraction.py 360-361: fmt.setdefault("id", to_id(fmt.get("name", "")))
WithDefaultIds(formats) ==
    [i \in DOMAIN formats |->
        IF formats[i].id = None
        THEN [formats[i] EXCEPT !.id = to_id(formats[i].name)]
        ELSE formats[i]]

\* Two payloads per resource: lists of (key, entry) in file order for the
\* four entry datasets, the moves of each species for the learnsets, the
\* isNonstandard tag of each species for formats-data, the list of formats
\* for formats.
Payloads ==
    [pokedex |-> << <<Entry(<<"m", "e", "w">>, <<"M", "e", "w">>, None, None)>>,
                    <<Entry(<<"m", "u", "k">>, <<"M", "u", "k">>, None, None),
                      Entry(<<"m", "u", "k", "a", "l", "o", "l", "a">>, <<"M", "u", "k", "-", "A", "l", "o", "l", "a">>, <<"M", "u", "k">>, <<"A", "l", "o", "l", "a">>)>> >>,
     moves |-> << <<Entry(<<"c", "u", "t">>, <<"C", "u", "t">>, None, None)>>,
                  <<Entry(<<"s", "u", "r", "f">>, <<"S", "u", "r", "f">>, None, None)>> >>,
     items |-> << <<Entry(<<"o", "r", "b">>, <<"O", "r", "b">>, None, None)>>,
                  <<Entry(<<"g", "e", "m">>, <<"G", "e", "m">>, None, None)>> >>,
     abilities |-> << <<Entry(<<"d", "r", "y">>, <<"D", "r", "y">>, None, None)>>,
                      <<Entry(<<"r", "u", "n">>, <<"R", "u", "n">>, None, None)>> >>,
     learnsets |-> << (<<"m", "e", "w">> :> {<<"c", "u", "t">>}),
                      (<<"m", "u", "k">> :> {<<"s", "u", "r", "f">>}) >>,
     formats_data |-> << (<<"m", "e", "w">> :> <<"P", "a", "s", "t">>),
                         (<<"m", "u", "k">> :> <<>>) >>,
     formats |-> << <<Format(<<"V", "G", "C">>, None, <<"d", "o", "u", "b", "l", "e", "s">>, <<>>)>>,
                    <<>> >>]

\* The labels resolve_*_id is called with.
LabelsOf(kind) ==
    IF kind = "species" THEN {<<"M", "e", "w">>, <<"M", "u", "k">>, <<"M", "u", "k", " ", "[", "A", "l", "o", "l", "a", "]">>}
    ELSE IF kind = "moves" THEN {<<"C", "u", "t">>, <<"S", "u", "r", "f">>}
    ELSE IF kind = "items" THEN {<<"O", "r", "b">>, <<"G", "e", "m">>}
    ELSE {<<"D", "r", "y">>, <<"R", "u", "n">>}

\* A local file or a cached dataset: whether it exists, the records it
\* holds, and whether its parser accepts it
NoData == [exists |-> FALSE, records |-> <<>>, wellformed |-> TRUE]
DataOf(records) == [exists |-> TRUE, records |-> records, wellformed |-> TRUE]

\* lines 171-190: a formats.js in which JS_OBJECT_PATTERN finds no export,
\* or whose export is not a list; _parse_formats_payload raises ValueError
Malformed == [exists |-> TRUE, records |-> <<>>, wellformed |-> FALSE]

\* What the site serves for a resource: the second version of formats.js is
\* malformed
Served(name, version) ==
    IF name = "formats" /\ version = 2 THEN Malformed
    ELSE DataOf(Payloads[name][version])
NotBuilt == [built |-> FALSE, map |-> <<>>]
BuiltMap(m) == [built |-> TRUE, map |-> m]

\* line 244: if _ALIAS_CACHE[kind] (None and the empty dict are falsy)
CachedMapUsable(c) == c.built /\ DOMAIN c.map # {}

\* lines 252-262: the names _get_alias_map registers for a species entry
SpeciesNames(e) ==
    {e.id, e.name, e.baseSpecies}
    \cup (IF e.baseSpecies # None /\ e.forme # None
          THEN {e.baseSpecies \o <<"-">> \o e.forme, e.baseSpecies \o <<" ">> \o e.forme}
          ELSE {})

\* lines 275-282: the names registered for a move, item or ability entry
SimpleNames(e) == {e.id, e.name} \cup SeqToSet(e.aliases)

\* lines 263-266, 283-286: insert each token unless it is empty or present
AddTokens(m, tokens, id) ==
    CHOOSE r \in {[t \in DOMAIN old \cup (tokens \ {<<>>}) |->
                        IF t \in DOMAIN old THEN old[t] ELSE id] : old \in {m}} : TRUE

AddAliases(m, names, id) == AddTokens(m, {to_id(n) : n \in names}, id)

RECURSIVE AliasFold(_, _, _)
AliasFold(kind, records, m) ==
    IF records = <<>> THEN m
    ELSE LET e == Head(records) IN
         AliasFold(kind, Tail(records),
                   AddAliases(m, IF kind = "species" THEN SpeciesNames(e)
                                 ELSE SimpleNames(e), e.id))

\* lines 247-286: the alias map built from the loaded records of a kind
BuildAliasMap(kind, records) == AliasFold(kind, records, <<>>)

\* dict.get
Lookup(m, token) == IF token \in DOMAIN m THEN m[token] ELSE None

\* lines 207-208: if name in _ALIAS_CACHE: _ALIAS_CACHE[name] = None
ResetAlias(alias, name) ==
    IF name \in DOMAIN alias THEN [alias EXCEPT ![name] = NotBuilt] ELSE alias

\* lines 200-212: _load_dataset on the state st = [disk, cache, alias,
\* raised, err]; ok says whether the download, if one is made, succeeds.  The
\* parser raises on a malformed file, which stays on disk.
LoadDatasetOn(st, name, force, ok) ==
    IF force \/ ~st.cache[name].exists
    THEN LET download == ~st.disk[name].exists \/ force IN
         IF download /\ ~ok
         THEN [st EXCEPT !.raised = TRUE, !.err = "transport"]
         ELSE LET disk2 == IF download
                           THEN [st.disk EXCEPT ![name] = Served(name, dataRemote[name])]
                           ELSE st.disk
              IN IF ~disk2[name].wellformed
                 THEN [st EXCEPT !.raised = TRUE, !.err = "parse", !.disk = disk2]
                 ELSE [raised |-> FALSE,
                       err |-> "none",
                       disk |-> disk2,
                       cache |-> [st.cache EXCEPT ![name] = DataOf(disk2[name].records)],
                       alias |-> ResetAlias(st.alias, name)]
    ELSE st

\* lines 243-288: _get_alias_map
GetAliasMapOn(st, kind, ok) ==
    IF CachedMapUsable(st.alias[kind])
    THEN st
    ELSE LET st1 == LoadDatasetOn(st, DataNameOf(kind), FALSE, ok) IN
         IF st1.raised THEN st1
         ELSE [st1 EXCEPT !.alias[kind] =
                  BuiltMap(BuildAliasMap(kind, st1.cache[DataNameOf(kind)].records))]

CurrentData ==
    [raised |-> FALSE, err |-> "none", disk |-> dataDisk, cache |-> dataCache,
     alias |-> aliasCache]

NoResolve == [kind |-> "none", label |-> None, result |-> None]

NoLoad == [returned |-> FALSE, events |-> <<>>, records |-> <<>>, files |-> <<>>]

LoadStart ==
    /\ dataRemote = [n \in DataNames |-> 1]
    /\ dataDisk = [n \in DataNames |-> NoData]
    /\ dataCache = [n \in DataNames |-> NoData]
    /\ aliasCache = [k \in Kinds |-> NotBuilt]
    /\ lastResolve = NoResolve
    /\ lastLoad = NoLoad
    /\ loadCalls = 0
    /\ dataChanges = 0

LoadQuiet == LoadStart

\* lines 215-240: load_pokedex_data, load_moves_data, ... (force or not)
LoadData(name, force) ==
    /\ loadCalls < MaxLoadCalls
    /\ loadCalls' = loadCalls + 1
    /\ \E ok \in BOOLEAN :
         LET st == LoadDatasetOn(CurrentData, name, force, ok) IN
         /\ dataDisk' = st.disk
         /\ dataCache' = st.cache
         /\ aliasCache' = st.alias
    /\ UNCHANGED <<dataRemote, lastResolve, lastLoad, dataChanges>>
    /\ UNCHANGED notLoad

\* lines 291-308: resolve_species_id, resolve_move_id, resolve_item_id,
\* resolve_ability_id
ResolveId(kind, label) ==
    /\ loadCalls < MaxLoadCalls
    /\ loadCalls' = loadCalls + 1
    /\ \E ok \in BOOLEAN :
         LET st == GetAliasMapOn(CurrentData, kind, ok) IN
         /\ dataDisk' = st.disk
         /\ dataCache' = st.cache
         /\ aliasCache' = st.alias
         /\ lastResolve' = IF st.raised THEN lastResolve
                           ELSE [kind |-> kind, label |-> label,
                                 result |-> Lookup(st.alias[kind].map, to_id(label))]
    /\ UNCHANGED <<dataRemote, lastLoad, dataChanges>>
    /\ UNCHANGED notLoad

\* lines 143-155: update_all_showdown_data, one _download_file per resource
\* in the order of SHOWDOWN_FILES; the first k succeed and leave the local
\* file equal to what the site serves, the next one raises
RefreshedDisk(k) ==
    [n \in DataNames |->
        IF n \in {LoadOrder[i] : i \in 1..k} THEN Served(n, dataRemote[n])
        ELSE dataDisk[n]]

UpdateAllShowdownData ==
    /\ loadCalls < MaxLoadCalls
    /\ loadCalls' = loadCalls + 1
    /\ \E k \in 0..Len(LoadOrder) : dataDisk' = RefreshedDisk(k)
    /\ UNCHANGED <<dataRemote, dataCache, aliasCache, lastResolve, lastLoad, dataChanges>>
    /\ UNCHANGED notLoad

\* What _load_dataset does, in order, on the state st (lines 201-206): a
\* forced download when the local file is missing, then the parse, both only
\* when the dataset is not cached
LoaderEvents(st, name) ==
    IF st.cache[name].exists THEN <<>>
    ELSE (IF st.disk[name].exists THEN <<>> ELSE <<[do |-> "fetch", name |-> name]>>)
         \o <<[do |-> "parse", name |-> name]>>

\* tournament_teams_extraction.py 453-459: the seven loaders, called in the
\* order of the keyword arguments, which is the order of SHOWDOWN_FILES; the
\* first one that raises ends the call
RECURSIVE LoadAllOn(_, _)
LoadAllOn(st, names) ==
    IF names = <<>> \/ st.raised THEN st
    ELSE LoadAllOn(LoadDatasetOn(st, Head(names), FALSE, TRUE), Tail(names))

RECURSIVE LoadAllEvents(_, _)
LoadAllEvents(st, names) ==
    IF names = <<>> \/ st.raised THEN <<>>
    ELSE LoaderEvents(st, Head(names))
         \o LoadAllEvents(LoadDatasetOn(st, Head(names), FALSE, TRUE), Tail(names))

\* tournament_teams_extraction.py 360-361: from_payloads sets the missing ids
\* on the format dicts it is given, which are the dicts of _DATA_CACHE
CacheAfterFromPayloads(cache) ==
    [cache EXCEPT !["formats"] = DataOf(WithDefaultIds(cache["formats"].records))]

\* tournament_teams_extraction.py 450-460: load_showdown_data.  The updater
\* fetches every resource (the first k succeed); the loaders then return the
\* datasets, parsing a file only when its dataset is not cached, and the
\* payloads handed to from_payloads are what the loaders returned.
LoadShowdownData ==
    /\ loadCalls < MaxLoadCalls
    /\ loadCalls' = loadCalls + 1
    /\ \E k \in 0..Len(LoadOrder) :
         LET Outcome(st0) ==
               LET Loaded(st) ==
                     IF st.raised
                     THEN /\ dataDisk' = st.disk
                          /\ dataCache' = st.cache
                          /\ aliasCache' = st.alias
                          /\ lastLoad' = NoLoad
                     ELSE /\ dataDisk' = st.disk
                          /\ dataCache' = CacheAfterFromPayloads(st.cache)
                          /\ aliasCache' = st.alias
                          /\ lastLoad' =
                                [returned |-> TRUE,
                                 events |-> [i \in 1..k |-> [do |-> "fetch", name |-> LoadOrder[i]]]
                                            \o LoadAllEvents(st0, LoadOrder),
                                 records |-> [n \in DataNames |-> st.cache[n].records],
                                 files |-> st.disk]
               IN Loaded(LoadAllOn(st0, LoadOrder))
         IN IF k < Len(LoadOrder)
            THEN /\ dataDisk' = RefreshedDisk(k)
                 /\ lastLoad' = NoLoad
                 /\ UNCHANGED <<dataCache, aliasCache>>
            ELSE Outcome([CurrentData EXCEPT !.disk = RefreshedDisk(k)])
    /\ UNCHANGED <<dataRemote, lastResolve, dataChanges>>
    /\ UNCHANGED notLoad

\* The publisher replaces a reference resource.
DataRemoteChange(name) ==
    /\ dataChanges < MaxDataChanges
    /\ dataChanges' = dataChanges + 1
    /\ dataRemote' = [dataRemote EXCEPT ![name] = 3 - dataRemote[name]]
    /\ UNCHANGED <<dataDisk, dataCache, aliasCache, lastResolve, lastLoad, loadCalls>>
    /\ UNCHANGED notLoad

LoadNext ==
    \/ LoadShowdownData
    \/ UpdateAllShowdownData
    \/ \E n \in DataNames, f \in BOOLEAN : LoadData(n, f)
    \/ \E k \in Kinds : \E l \in LabelsOf(k) : ResolveId(k, l)
    \/ \E n \in DataNames : DataRemoteChange(n)

(***************************************************************************)
(* Species alias index: ShowdownData._build_species_alias_map in           *)
(* tournament_teams_extraction.py (one pass) and showdown_manager.py (base *)
(* forms first, then formes).                                              *)
(***************************************************************************)
\* The pokedex entries the build is run on.
SpeciesPool ==
    {[Entry(<<"m", "u", "k">>, <<"M", "u", "k">>, None, None) EXCEPT !.otherFormes = <<<<"M", "u", "k", "-", "A", "l", "o", "l", "a">>>>],
     Entry(<<"m", "u", "k", "a", "l", "o", "l", "a">>, <<"M", "u", "k", "-", "A", "l", "o", "l", "a">>, <<"M", "u", "k">>, <<"A", "l", "o", "l", "a">>),
     Entry(<<"m", "e", "w">>, <<"M", "e", "w">>, <<"M", "e", "w">>, None),
     Entry(<<"c", "a", "l", "y", "r", "e", "x", "s", "h", "a", "d", "o", "w">>, <<"C", "a", "l", "y", "r", "e", "x", "-", "S", "h", "a", "d", "o", "w">>, <<"C", "a", "l", "y", "r", "e", "x">>, <<"S", "h", "a", "d", "o", "w">>)}

Implementations == {"tte", "sm"}

\* showdown_manager.py 221-223: an entry with no baseSpecies, or that is its own base
IsBaseEntry(e) ==
    e.baseSpecies = None \/ e.baseSpecies = e.id \/ to_id(e.baseSpecies) = e.id

IsFormeEntry(e) == ~IsBaseEntry(e)

\* tournament_teams_extraction.py 380-393 (showdown_manager.py 230-243)
FormeNames(e) ==
    {e.name, e.id}
    \cup (IF e.baseSpecies # None THEN {e.baseSpecies} ELSE {})
    \cup (IF e.baseSpecies # None /\ e.forme # None
          THEN {e.baseSpecies \o <<"-">> \o e.forme,
                e.baseSpecies \o <<" ">> \o e.forme,
                e.baseSpecies \o <<" ", "[">> \o e.forme \o <<"]">>,
                e.baseSpecies \o <<" ", "(">> \o e.forme \o <<")">>}
               \cup (IF LowerStr(e.forme) = <<"s", "h", "a", "d", "o", "w">>
                     THEN {e.baseSpecies \o <<" ", "S", "h", "a", "d", "o", "w", " ", "R", "i", "d", "e", "r">>} ELSE {})
               \cup (IF LowerStr(e.forme) = <<"i", "c", "e">>
                     THEN {e.baseSpecies \o <<" ", "I", "c", "e", " ", "R", "i", "d", "e", "r">>} ELSE {})
          ELSE {})

\* showdown_manager.py 244-246: otherFormes or formeOrder
OtherNames(e) ==
    SeqToSet(IF e.otherFormes # <<>> THEN e.otherFormes ELSE e.formeOrder)

NamesOf(i, e) == IF i = "sm" THEN FormeNames(e) \cup OtherNames(e) ELSE FormeNames(e)

\* The order in which the entries are inserted: file order in
\* tournament_teams_extraction.py 379; base entries, then formes, in
\* showdown_manager.py 218-253.
SinglePassOrder(pokedex) == pokedex
BaseFirstOrder(pokedex) ==
    SelectSeq(pokedex, IsBaseEntry) \o SelectSeq(pokedex, IsFormeEntry)

BuildOrder(i, pokedex) ==
    IF i = "sm" THEN BaseFirstOrder(pokedex) ELSE SinglePassOrder(pokedex)

DistinctIds(q) == \A i, j \in DOMAIN q : i # j => q[i].id # q[j].id

PokedexInputs ==
    UNION {{q \in [1..n -> SpeciesPool] : DistinctIds(q)} : n \in 1..MaxRecords}

AliasStart ==
    /\ pokedexIn \in PokedexInputs
    /\ impl \in Implementations
    /\ pos = 0
    /\ aliasMap = <<>>
    /\ replaced = FALSE

AliasQuiet ==
    /\ pokedexIn = <<>>
    /\ impl = "tte"
    /\ pos = 0
    /\ aliasMap = <<>>
    /\ replaced = FALSE

BuildDone == pos = Len(pokedexIn)

\* One iteration of the insertion loop (tournament_teams_extraction.py 379-397,
\* showdown_manager.py 229-250 and 253-274).
InsertEntry ==
    /\ pos < Len(pokedexIn)
    /\ LET e == BuildOrder(impl, pokedexIn)[pos + 1]
           m == AddAliases(aliasMap, NamesOf(impl, e), e.id)
       IN /\ aliasMap' = m
          /\ replaced' = (replaced \/ \E t \in DOMAIN aliasMap : m[t] # aliasMap[t])
    /\ pos' = pos + 1
    /\ UNCHANGED <<pokedexIn, impl>>
    /\ UNCHANGED notAlias

AliasNext == InsertEntry

(***************************************************************************)
(* Extraction pipeline: tournament_teams_extraction.run_pipeline,          *)
(* load_showdown_data, process_tournaments, process_tournament,            *)
(* transform_player and convert_decklist_entry.                            *)
(***************************************************************************)
\* lines 376-398 and showdown_manager.py 213-275: the finished alias_map
RECURSIVE SpeciesAliasFold(_, _, _)
SpeciesAliasFold(i, order, m) ==
    IF order = <<>> THEN m
    ELSE SpeciesAliasFold(i, Tail(order),
                          AddAliases(m, NamesOf(i, Head(order)), Head(order).id))

BuildSpeciesAliasMap(i, pokedex) == SpeciesAliasFold(i, BuildOrder(i, pokedex), <<>>)

\* lines 400-418: _build_simple_alias_map; moveNames selects the normalizer
\* normalize_move_name instead of to_id
RECURSIVE SimpleAliasFold(_, _, _)
SimpleAliasFold(entries, moveNames, m) ==
    IF entries = <<>> THEN m
    ELSE LET e == Head(entries)
             tokens == IF moveNames
                       THEN {normalize_move_name(n) : n \in SimpleNames(e)}
                       ELSE {to_id(n) : n \in SimpleNames(e)}
         IN SimpleAliasFold(Tail(entries), moveNames, AddTokens(m, tokens, e.id))

BuildSimpleAliasMap(entries, moveNames) == SimpleAliasFold(entries, moveNames, <<>>)

NoShowdown ==
    [built |-> FALSE, pokedex |-> <<>>, moves |-> <<>>, items |-> <<>>,
     abilities |-> <<>>, learnsets |-> <<>>, formats_data |-> <<>>,
     formats |-> <<>>, species_alias_map |-> <<>>, move_alias_map |-> <<>>,
     item_alias_map |-> <<>>, ability_alias_map |-> <<>>]

\* lines 344-374: ShowdownData.from_payloads
from_payloads_Lazy(pokedex, moves, items, abilities, learnsets, formats_data, formats) ==
    [built |-> TRUE, pokedex |-> pokedex, moves |-> moves, items |-> items,
     abilities |-> abilities, learnsets |-> learnsets,
     formats_data |-> formats_data, formats |-> WithDefaultIds(formats),
     species_alias_map |-> <<>>,
     move_alias_map |-> BuildSimpleAliasMap(moves, TRUE),
     item_alias_map |-> BuildSimpleAliasMap(items, FALSE),
     ability_alias_map |-> BuildSimpleAliasMap(abilities, FALSE)]
from_payloads(pokedex, moves, items, abilities, learnsets, formats_data, formats) ==
    [built |-> TRUE, pokedex |-> pokedex, moves |-> moves, items |-> items,
     abilities |-> abilities, learnsets |-> learnsets,
     formats_data |-> formats_data, formats |-> WithDefaultIds(formats),
     species_alias_map |-> BuildSpeciesAliasMap("tte", pokedex),
     move_alias_map |-> BuildSimpleAliasMap(moves, TRUE),
     item_alias_map |-> BuildSimpleAliasMap(items, FALSE),
     ability_alias_map |-> BuildSimpleAliasMap(abilities, FALSE)]

\* lines 420-426: ShowdownData.resolve_species_id
resolve_species_id(sd, label) ==
    LET Find(token) ==
            IF token \in DOMAIN sd.species_alias_map
            THEN sd.species_alias_map[token]
            ELSE Lookup(sd.species_alias_map, to_id(label))
    IN Find(to_id(normalize_species_label(label)))

\* lines 428-434: ShowdownData.resolve_item_id, resolve_ability_id
resolve_item_id(sd, name) == Lookup(sd.item_alias_map, to_id(name))
resolve_ability_id(sd, name) == Lookup(sd.ability_alias_map, to_id(name))

\* lines 436-447: ShowdownData.resolve_move_id
resolve_move_id(sd, name) ==
    LET Find(token, fallback) ==
            IF token \in DOMAIN sd.move_alias_map THEN sd.move_alias_map[token]
            ELSE IF fallback \in DOMAIN sd.move_alias_map
                 THEN sd.move_alias_map[fallback]
            ELSE IF DOMAIN sd.move_alias_map # {}
                 THEN Lookup(sd.move_alias_map,
                             get_close_match(token, DOMAIN sd.move_alias_map))
                 ELSE None
    IN Find(normalize_move_name(name), to_id(name))

HasEntry(records, id) == \E i \in DOMAIN records : records[i].id = id

\* dict.get(id, {}) on a dataset
EntryOf(records, id) ==
    IF HasEntry(records, id)
    THEN records[CHOOSE i \in DOMAIN records : records[i].id = id]
    ELSE Entry(id, None, None, None)

\* dict.get(key, default) on a mapping
MapGet(m, key, default) == IF key \in DOMAIN m THEN m[key] ELSE default

\* lines 463-473: validate_move_learnset
validate_move_learnset(sd, species_id, move_id) ==
    IF move_id \in MapGet(sd.learnsets, species_id, {}) THEN TRUE
    ELSE LET base_species == EntryOf(sd.pokedex, species_id).baseSpecies
             base_id == Lookup(sd.species_alias_map, to_id(base_species))
         IN /\ base_species # None
            /\ base_id # None
            /\ move_id \in MapGet(sd.learnsets, base_id, {})

\* showdown_manager.py 562-575: ShowdownManager.can_species_learn_move, on the
\* ShowdownData of the manager
can_species_learn_move(data, species_id, move_id) ==
    IF move_id \in MapGet(data.learnsets, species_id, {}) THEN TRUE
    ELSE LET base_species == EntryOf(data.pokedex, species_id).baseSpecies
             base_id == Lookup(data.species_alias_map, to_id(base_species))
         IN /\ base_species # None
            /\ base_id # None
            /\ move_id \in MapGet(data.learnsets, base_id, {})

\* sub in str
Contains(str, sub) ==
    \E i \in 0..(Len(str) - Len(sub)) : SubSeq(str, i + 1, i + Len(sub)) = sub

\* lines 39-59
TERA_TYPES ==
    {<<"B", "u", "g">>, <<"D", "a", "r", "k">>, <<"D", "r", "a", "g", "o", "n">>, <<"E", "l", "e", "c", "t", "r", "i", "c">>, <<"F", "a", "i", "r", "y">>, <<"F", "i", "g", "h", "t", "i", "n", "g">>,
     <<"F", "i", "r", "e">>, <<"F", "l", "y", "i", "n", "g">>, <<"G", "h", "o", "s", "t">>, <<"G", "r", "a", "s", "s">>, <<"G", "r", "o", "u", "n", "d">>, <<"I", "c", "e">>,
     <<"N", "o", "r", "m", "a", "l">>, <<"P", "o", "i", "s", "o", "n">>, <<"P", "s", "y", "c", "h", "i", "c">>, <<"R", "o", "c", "k">>, <<"S", "t", "e", "e", "l">>, <<"W", "a", "t", "e", "r">>,
     <<"S", "t", "e", "l", "l", "a", "r">>}

\* lines 62-68
CATEGORY_TAGS_None == {}
CATEGORY_TAGS ==
    {<<"R", "e", "s", "t", "r", "i", "c", "t", "e", "d", " ", "L", "e", "g", "e", "n", "d", "a", "r", "y">>, <<"S", "u", "b", "-", "L", "e", "g", "e", "n", "d", "a", "r", "y">>, <<"M", "y", "t", "h", "i", "c", "a", "l">>, <<"P", "a", "r", "a", "d", "o", "x">>,
     <<"U", "l", "t", "r", "a", " ", "B", "e", "a", "s", "t">>}

\* lines 481-484: the isNonstandard values that exclude a species
NonstandardExcluded == {<<"P", "a", "s", "t">>, <<"F", "u", "t", "u", "r", "e">>, <<"U", "n", "o", "b", "t", "a", "i", "n", "a", "b", "l", "e">>}

\* line 490: fmt.get("id") or to_id(fmt.get("name", ""))
FormatId(fmt) == IF fmt.id # None THEN fmt.id ELSE to_id(fmt.name)

\* lines 488-505: the format is kept for the species
FormatSurvives(fmt, species_id, tags) ==
    /\ Contains(LowerStr(fmt.name), <<"v", "g", "c">>)
    /\ FormatId(fmt) # None
    /\ (fmt.gameType = None \/ fmt.gameType = <<"d", "o", "u", "b", "l", "e", "s">>)
    /\ species_id \notin {to_id(fmt.banlist[i]) : i \in DOMAIN fmt.banlist}
    /\ ~\E i \in DOMAIN fmt.banlist :
            fmt.banlist[i] \in CATEGORY_TAGS /\ fmt.banlist[i] \in tags

\* sorted(valid): stable insertion by string order
InsertString(sorted, s) ==
    LET n == Cardinality({i \in DOMAIN sorted : ~StrLess(s, sorted[i])})
    IN SubSeq(sorted, 1, n) \o <<s>> \o SubSeq(sorted, n + 1, Len(sorted))

RECURSIVE SortStrings(_)
SortStrings(q) ==
    IF q = <<>> THEN <<>>
    ELSE InsertString(SortStrings(SubSeq(q, 1, Len(q) - 1)), q[Len(q)])

\* lines 476-507: determine_valid_formats (restrict_to_vgc=True)
determine_valid_formats(sd, species_id) ==
    LET entry == EntryOf(sd.pokedex, species_id)
        meta == MapGet(sd.formats_data, species_id, None)
        tags == SeqToSet(entry.tags)
        kept == SelectSeq(sd.formats, LAMBDA fmt : FormatSurvives(fmt, species_id, tags))
    IN IF entry.isNonstandard \in NonstandardExcluded \/ meta \in NonstandardExcluded
       THEN <<>>
       ELSE SortStrings([i \in DOMAIN kept |-> FormatId(kept[i])])

\* showdown_data_manager.py 338-347: _get_format_entry; a later format of the
\* list replaces an earlier one with the same id
FormatEntryIndex(formats, format_name) ==
    LET Last(matches) ==
            IF matches = {} THEN 0
            ELSE CHOOSE i \in matches : \A j \in matches : j <= i
    IN Last({i \in DOMAIN formats :
                /\ FormatId(formats[i]) # None
                /\ FormatId(formats[i]) = to_id(format_name)})

\* showdown_data_manager.py 362: the isNonstandard values that exclude a species
ManagerNonstandardExcluded == {<<"P", "a", "s", "t">>, <<"I", "l", "l", "e", "g", "a", "l">>}

\* showdown_data_manager.py 350-364: validate_species_in_format, with the
\* species alias map that _get_alias_map hands to resolve_species_id and the
\* formats list and formats-data the loaders return
validate_species_in_format(aliases, formats, formats_data, species_name, format_name) ==
    LET Check(species_id, k) ==
            /\ species_id # None
            /\ k # 0
            /\ species_id \notin {to_id(formats[k].banlist[i]) :
                                    i \in DOMAIN formats[k].banlist}
            /\ MapGet(formats_data, species_id, None) \notin ManagerNonstandardExcluded
    IN Check(Lookup(aliases, to_id(species_name)),
             FormatEntryIndex(formats, format_name))

\* lines 541-545: the issue of a move that is not found
MoveNotFoundIssue_NoLabel(move) == <<"M", "o", "v", "e", " ", "n", "o", "t", " ", "f", "o", "u", "n", "d", " ", "i", "n", " ", "S", "h", "o", "w", "d", "o", "w", "n", " ", "d", "a", "t", "a">>
MoveNotFoundIssue(move) ==
    <<"M", "o", "v", "e", " ", "'">> \o move \o <<"'", " ", "n", "o", "t", " ", "f", "o", "u", "n", "d", " ", "i", "n", " ", "S", "h", "o", "w", "d", "o", "w", "n", " ", "d", "a", "t", "a">>

\* lines 547-549: is_legal of a move entry
IsLegal_WhenResolved(sd, species_id, move_id) ==
    move_id # None /\ species_id # None
IsLegal(sd, species_id, move_id) ==
    /\ move_id # None
    /\ species_id # None
    /\ validate_move_learnset(sd, species_id, move_id)

\* lines 533-561: one move of the slot: its entry and its issues
ConvertMove(sd, move, species_id, species_label) ==
    LET Result(resolved) ==
            LET found == resolved # None /\ HasEntry(sd.moves, resolved)
                move_id == IF found THEN resolved ELSE None
                meta_name == EntryOf(sd.moves, resolved).name
                move_name == IF found /\ meta_name # None THEN meta_name ELSE move
                learns == IsLegal(sd, species_id, move_id)
            IN [entry |-> [raw_move |-> move, move_id |-> move_id,
                           move_name |-> move_name, is_legal |-> learns],
                issues |-> (IF found THEN <<>> ELSE <<MoveNotFoundIssue(move)>>)
                           \o (IF move_id # None /\ species_id # None /\ ~learns
                               THEN <<species_label \o <<" ", "c", "a", "n", "n", "o", "t", " ", "l", "e", "a", "r", "n", " ">> \o move_name>>
                               ELSE <<>>)
                           \o (IF move_id # None /\ species_id = None
                               THEN <<<<"U", "n", "a", "b", "l", "e", " ", "t", "o", " ", "v", "a", "l", "i", "d", "a", "t", "e", " ", "m", "o", "v", "e", " ", "'">> \o move
                                        \o <<"'", " ", "w", "i", "t", "h", "o", "u", "t", " ", "s", "p", "e", "c", "i", "e", "s", " ", "d", "a", "t", "a">>>>
                               ELSE <<>>)]
    IN Result(resolve_move_id(sd, move))

RECURSIVE Flatten(_)
Flatten_First(qs) == IF qs = <<>> THEN <<>> ELSE Head(qs)
Flatten(qs) == IF qs = <<>> THEN <<>> ELSE Head(qs) \o Flatten(Tail(qs))

\* A roster slot; an absent field is None.
FullSlot(name, teratype, ability, item, badges) ==
    [name |-> name, teratype |-> teratype, ability |-> ability, item |-> item,
     badges |-> badges]

\* lines 510-577: convert_decklist_entry
convert_decklist_entry(slot, sd) ==
    LET raw == IF slot.name # None THEN slot.name ELSE <<"U", "n", "k", "n", "o", "w", "n">>
        moves == SelectSeq(slot.badges, LAMBDA move : move # None)
        Build(species_id) ==
            LET entry_name == EntryOf(sd.pokedex, species_id).name
                species_label == IF species_id # None /\ entry_name # None
                                 THEN entry_name ELSE raw
                converted == [k \in DOMAIN moves |->
                                 ConvertMove(sd, moves[k], species_id, species_label)]
            IN [raw_species |-> raw,
                species |-> species_label,
                showdown_id |-> IF species_id # None THEN species_id ELSE to_id(species_label),
                tera_type |-> slot.teratype,
                ability |-> slot.ability,
                item |-> slot.item,
                moves |-> [k \in DOMAIN converted |-> converted[k].entry],
                valid_formats |-> IF species_id # None
                                  THEN determine_valid_formats(sd, species_id) ELSE <<>>,
                issues |->
                    (IF slot.teratype # None /\ slot.teratype \notin TERA_TYPES
                     THEN <<<<"U", "n", "k", "n", "o", "w", "n", " ", "T", "e", "r", "a", " ", "T", "y", "p", "e", " ", "'">> \o slot.teratype \o <<"'">>>> ELSE <<>>)
                    \o (IF slot.ability # None /\ resolve_ability_id(sd, slot.ability) = None
                        THEN <<<<"A", "b", "i", "l", "i", "t", "y", " ", "'">> \o slot.ability \o <<"'", " ", "n", "o", "t", " ", "f", "o", "u", "n", "d", " ", "i", "n", " ", "S", "h", "o", "w", "d", "o", "w", "n", " ", "d", "a", "t", "a">>>>
                        ELSE <<>>)
                    \o (IF slot.item # None /\ resolve_item_id(sd, slot.item) = None
                        THEN <<<<"I", "t", "e", "m", " ", "'">> \o slot.item \o <<"'", " ", "n", "o", "t", " ", "f", "o", "u", "n", "d", " ", "i", "n", " ", "S", "h", "o", "w", "d", "o", "w", "n", " ", "d", "a", "t", "a">>>>
                        ELSE <<>>)
                    \o Flatten([k \in DOMAIN converted |-> converted[k].issues])
                    \o (IF species_id = None
                        THEN <<<<"U", "n", "a", "b", "l", "e", " ", "t", "o", " ", "r", "e", "s", "o", "l", "v", "e", " ", "s", "p", "e", "c", "i", "e", "s", " ", "'">> \o species_label \o <<"'">>>>
                        ELSE <<>>)]
    IN Build(resolve_species_id(sd, raw))

\* lines 599-620: transform_player
transform_player(player, sd) ==
    LET Build(pokemon) ==
            LET issues == Flatten([k \in DOMAIN pokemon |-> pokemon[k].issues])
            IN [player_name |-> split_player_name(player.name),
                placing |-> player.placing,
                pokemon |-> pokemon,
                is_valid |-> (issues = <<>>),
                issues |-> issues]
    IN Build([k \in DOMAIN player.decklist |->
                 convert_decklist_entry(player.decklist[k], sd)])

\* A placing is <<n>>; an absent placing is None.
Placed(p) == p.placing # None

\* line 648: the sort key, with its sentinel for an absent placing
UnplacedKey == 9999
SortKey(p) == IF Placed(p) THEN p.placing[1] ELSE UnplacedKey

\* list.sort is stable: an element goes after those whose key is not greater
InsertByKey(sorted, p) ==
    LET n == Cardinality({i \in DOMAIN sorted : SortKey(sorted[i]) <= SortKey(p)})
    IN SubSeq(sorted, 1, n) \o <<p>> \o SubSeq(sorted, n + 1, Len(sorted))

RECURSIVE SortByPlacing(_)
SortByPlacing(extracted) ==
    IF extracted = <<>> THEN <<>>
    ELSE InsertByKey(SortByPlacing(SubSeq(extracted, 1, Len(extracted) - 1)),
                     extracted[Len(extracted)])

\* The tournaments of the list, in the order of the list, and the divisions
\* asked for.
Tournaments == {"t1", "t2"}
TournamentOrder == <<"t1", "t2">>
Divisions == <<"masters", "seniors">>

Slot(label) == FullSlot(label, None, None, None, <<>>)
Player(name, placing, label) ==
    [name |-> name, placing |-> placing, decklist |-> <<Slot(label)>>]

\* The players a division payload is made of.
PlayerPool ==
    {Player(<<"A", "n", "a", " ", "[", "U", "S", "]">>, <<1>>, <<"M", "e", "w">>),
     Player(<<"B", "o">>, <<10000>>, <<"M", "u", "k", " ", "[", "A", "l", "o", "l", "a", "n", " ", "F", "o", "r", "m", "]">>),
     Player(<<"C", "y">>, None, <<"M", "u", "k">>)}

DistinctPlayers(q) == \A i, j \in DOMAIN q : i # j => q[i] # q[j]

DivisionPayloads ==
    UNION {{q \in [1..n -> PlayerPool] : DistinctPlayers(q)} : n \in 0..MaxPlayers}

\* What the site holds: the divisions each tournament page can list and
\* the payloads a division can have (only the masters division of t1 is a
\* large one).
Offered == [t \in Tournaments |->
               IF t = "t1" THEN {"masters", "seniors"} ELSE {"seniors", "juniors"}]

PayloadsOf(t, division) ==
    IF t = "t1" /\ division = "masters" THEN DivisionPayloads
    ELSE {<<>>, <<Player(<<"C", "y">>, None, <<"M", "u", "k">>)>>}

\* lines 309-312: a page that lists no division stands for masters only
fetch_divisions(listed) == IF listed = {} THEN {"masters"} ELSE listed

\* line 633: the divisions asked for that are available, in the order asked
TargetOf(available) == SelectSeq(Divisions, LAMBDA d : d \in available)

\* lines 673-684: the comprehension submits the tournaments in list order;
\* the tournament it submits next, given how many it has submitted
NextSubmitted(statusOf) ==
    TournamentOrder[1 + Cardinality({t \in Tournaments : statusOf[t] # "unsubmitted"})]

\* A tournament worker: its status, the locals of process_tournament
\* (target divisions still to do, payload, pending futures, extracted,
\* results) and the payloads of the divisions it has finished.
IdleTask ==
    [status |-> "unsubmitted", todo |-> <<>>, payload |-> <<>>, pending |-> {},
     extracted |-> <<>>, ret |-> <<>>, served |-> <<>>]

\* process_tournament is left by an exception: the locals of the division
\* in progress are gone
Raised(w) == [w EXCEPT !.status = "failed", !.payload = <<>>, !.pending = {},
                       !.extracted = <<>>]

\* lines 689-692: the result of a finished tournament future is appended, an
\* Exception it raised is logged
GatherOutcome_Propagates(status) ==
    IF status = "failed" THEN "propagated" ELSE "extended"
\* the results a failed worker had built are appended as well
GatherOutcome_KeepsPartial(status) == "extended"
GatherOutcome(status) ==
    IF status = "failed" THEN "logged" ELSE "extended"

\* showdown_data_manager.py 152-154: the order in which the updater fetches
DataOrder == LoadOrder

PipeStart ==
    /\ pipePc = "start"
    /\ pipeErr = "none"
    /\ showdown = NoShowdown
    /\ task = [t \in Tournaments |-> IdleTask]
    /\ gathered = {}
    /\ results = <<>>

PipeQuiet == PipeStart

\* lines 450-460: load_showdown_data.  update_all_showdown_data refreshes the
\* seven files in order and raises at the first failed download; the loaders
\* then parse the files (the parser raises on a malformed formats.js,
\* showdown_data_manager.py 171-190, after the other six datasets are
\* cached) and from_payloads builds the alias maps.
LoadShowdown ==
    /\ pipePc = "start"
    /\ \E k \in 0..Len(DataOrder) :
         LET Loaded(st) ==
               IF st.raised
               THEN /\ dataDisk' = st.disk
                    /\ dataCache' = st.cache
                    /\ aliasCache' = st.alias
                    /\ pipePc' = "failed"
                    /\ pipeErr' = st.err
                    /\ UNCHANGED showdown
               ELSE /\ dataDisk' = st.disk
                    /\ dataCache' = CacheAfterFromPayloads(st.cache)
                    /\ aliasCache' = st.alias
                    /\ showdown' = from_payloads(st.cache["pokedex"].records,
                                                 st.cache["moves"].records,
                                                 st.cache["items"].records,
                                                 st.cache["abilities"].records,
                                                 st.cache["learnsets"].records,
                                                 st.cache["formats_data"].records,
                                                 st.cache["formats"].records)
                    /\ pipePc' = "loaded"
                    /\ UNCHANGED pipeErr
         IN IF k < Len(DataOrder)
            THEN /\ dataDisk' = RefreshedDisk(k)
                 /\ pipePc' = "failed"
                 /\ pipeErr' = "transport"
                 /\ UNCHANGED <<dataCache, aliasCache, showdown>>
            ELSE Loaded(LoadAllOn([CurrentData EXCEPT !.disk = RefreshedDisk(k)], DataOrder))
    /\ UNCHANGED <<task, gathered, results>>
    /\ UNCHANGED <<dataRemote, lastResolve, lastLoad, loadCalls, dataChanges>>
    /\ UNCHANGED <<fetchVars, aliasVars, queryVars, poolVars>>

\* line 737: fetch_tournament_list, which may raise
FetchTournamentList ==
    /\ pipePc = "loaded"
    /\ \E ok \in BOOLEAN :
         IF ~ok
         THEN /\ pipePc' = "failed"
              /\ pipeErr' = "transport"
         ELSE /\ pipePc' = "submitting"
              /\ UNCHANGED pipeErr
    /\ UNCHANGED <<showdown, task, gathered, results>>
    /\ UNCHANGED notPipe

\* lines 673-684: the next tournament of the list is submitted to the thread
\* pool, where a thread may run it at once; after the last one the
\* as_completed loop begins
Submit ==
    /\ pipePc = "submitting"
    /\ LET t == NextSubmitted([u \in Tournaments |-> task[u].status]) IN
       /\ task' = [task EXCEPT ![t].status = "pending"]
       /\ pipePc' = IF t = TournamentOrder[Len(TournamentOrder)] THEN "running"
                    ELSE "submitting"
    /\ UNCHANGED <<pipeErr, showdown, gathered, results>>
    /\ UNCHANGED notPipe

\* lines 632-633: fetch_divisions, which may raise, and the target divisions
StartTournament(t) ==
    /\ task[t].status = "pending"
    /\ \E ok \in BOOLEAN, listed \in SUBSET Offered[t] :
         IF ~ok
         THEN task' = [task EXCEPT ![t] = Raised(@)]
         ELSE LET target == TargetOf(fetch_divisions(listed)) IN
              task' = [task EXCEPT ![t].todo = target,
                                   ![t].status = IF target = <<>> THEN "done"
                                                 ELSE "fetching"]
    /\ UNCHANGED <<pipePc, pipeErr, showdown, gathered, results>>
    /\ UNCHANGED notPipe

\* lines 636-644: fetch_division_payload, which may raise, and the submission
\* of every player to the process pool
FetchDivision(t) ==
    /\ task[t].status = "fetching"
    /\ \E ok \in BOOLEAN, payload \in PayloadsOf(t, Head(task[t].todo)) :
         IF ~ok
         THEN task' = [task EXCEPT ![t] = Raised(@)]
         ELSE task' = [task EXCEPT ![t].status = "converting",
                                   ![t].payload = payload,
                                   ![t].pending = DOMAIN payload,
                                   ![t].extracted = <<>>]
    /\ UNCHANGED <<pipePc, pipeErr, showdown, gathered, results>>
    /\ UNCHANGED notPipe

\* lines 643, 646-647: a worker finishes transform_player for one player and
\* as_completed hands the future over; future.result() gives the extraction
\* or raises what the worker raised (or BrokenProcessPool), which ends
\* process_tournament
ConvertPlayer(t, i) ==
    /\ task[t].status = "converting"
    /\ i \in task[t].pending
    /\ \E ok \in BOOLEAN :
         IF ~ok
         THEN task' = [task EXCEPT ![t] = Raised(@)]
         ELSE task' = [task EXCEPT
                         ![t].pending = @ \ {i},
                         ![t].extracted = Append(@, transform_player(task[t].payload[i],
                                                                     showdown))]
    /\ UNCHANGED <<pipePc, pipeErr, showdown, gathered, results>>
    /\ UNCHANGED notPipe

\* lines 648-656: the division's players are sorted and the result appended
FinishDivision(t) ==
    /\ task[t].status = "converting"
    /\ task[t].pending = {}
    /\ LET division == [tournament |-> t,
                        division |-> Head(task[t].todo),
                        players |-> SortByPlacing(task[t].extracted)]
       IN task' = [task EXCEPT
                     ![t].ret = Append(@, division),
                     ![t].served = Append(@, task[t].payload),
                     ![t].todo = Tail(@),
                     ![t].payload = <<>>,
                     ![t].extracted = <<>>,
                     ![t].status = IF Tail(task[t].todo) = <<>> THEN "done"
                                   ELSE "fetching"]
    /\ UNCHANGED <<pipePc, pipeErr, showdown, gathered, results>>
    /\ UNCHANGED notPipe

\* lines 686-692: as_completed yields a finished tournament future
Gather(t) ==
    /\ pipePc = "running"
    /\ t \notin gathered
    /\ task[t].status \in {"done", "failed"}
    /\ gathered' = gathered \cup {t}
    /\ LET outcome == GatherOutcome(task[t].status) IN
       /\ results' = IF outcome = "extended" THEN results \o task[t].ret ELSE results
       /\ pipePc' = IF outcome = "propagated" THEN "aborted" ELSE pipePc
    /\ UNCHANGED <<pipeErr, showdown, task>>
    /\ UNCHANGED notPipe

\* lines 693-694: process_tournaments returns the aggregate
ReturnResults ==
    /\ pipePc = "running"
    /\ gathered = Tournaments
    /\ pipePc' = "done"
    /\ UNCHANGED <<pipeErr, showdown, task, gathered, results>>
    /\ UNCHANGED notPipe

\* The publisher replaces the pokedex, or formats.js, before or while the
\* pipeline runs.
PokedexChange == DataRemoteChange("pokedex")
FormatsChange == DataRemoteChange("formats")

PipeNext ==
    \/ LoadShowdown
    \/ FetchTournamentList
    \/ Submit
    \/ \E t \in Tournaments : StartTournament(t)
    \/ \E t \in Tournaments : FetchDivision(t)
    \/ \E t \in Tournaments, i \in 1..MaxPlayers : ConvertPlayer(t, i)
    \/ \E t \in Tournaments : FinishDivision(t)
    \/ \E t \in Tournaments : Gather(t)
    \/ ReturnResults
    \/ PokedexChange
    \/ FormatsChange

(***************************************************************************)
(* species_resolver.py: the stand-alone species resolver.                  *)
(***************************************************************************)

\* str.replace(old, new) for one character
ReplaceChar(str, old, new) == [i \in DOMAIN str |-> IF str[i] = old THEN new ELSE str[i]]

\* str.replace(old, "") for one character
RemoveChar(str, old) == SelectSeq(str, LAMBDA c : c # old)

\* species_resolver.py 119-139: the names an entry is known by
ResolverNames(e) ==
    {e.id, e.name}
    \cup (IF e.baseSpecies # None
          THEN {e.baseSpecies}
               \cup (IF e.forme # None
                     THEN {e.baseSpecies \o <<"-">> \o e.forme,
                           e.baseSpecies \o <<" ">> \o e.forme}
                     ELSE {})
          ELSE {})
    \cup SeqToSet(e.otherFormes) \cup SeqToSet(e.formeOrder)
    \cup SeqToSet(e.cosmeticFormes) \cup SeqToSet(e.aliases)

\* species_resolver.py 141-146: each name with hyphens as spaces and with
\* the spaces removed
ExpandedNames(names) ==
    names \cup {ReplaceChar(n, "-", " ") : n \in names \ {None}}
          \cup {RemoveChar(n, " ") : n \in names \ {None}}

\* species_resolver.py 117-152: _build_alias_map
RECURSIVE ResolverAliasFold(_, _)
ResolverAliasFold(pokedex, m) ==
    IF pokedex = <<>> THEN m
    ELSE ResolverAliasFold(Tail(pokedex),
            AddAliases(m, ExpandedNames(ResolverNames(Head(pokedex))) \ {None},
                       Head(pokedex).id))

_build_alias_map(pokedex) == ResolverAliasFold(pokedex, <<>>)

\* species_resolver.py 155: DESCRIPTOR_KEYWORDS
DESCRIPTOR_KEYWORDS ==
    {<<"a", "l", "o", "l", "a">>, <<"a", "l", "o", "l", "a", "n">>, <<"a", "m", "p">>, <<"a", "m", "p", "e", "d">>, <<"a", "q", "u", "a">>, <<"a", "s", "p", "e", "c", "t">>,
     <<"b", "l", "a", "z", "e">>, <<"b", "l", "o", "o", "d", "m", "o", "o", "n">>, <<"b", "r", "e", "e", "d">>, <<"c", "o", "m", "b", "a", "t">>, <<"c", "r", "o", "w", "n", "e", "d">>, <<"c", "u", "r", "l", "y">>,
     <<"d", "r", "o", "o", "p", "y">>, <<"d", "u", "s", "k">>, <<"f", "a", "m", "i", "l", "y">>, <<"f", "a", "n">>, <<"f", "e", "m", "a", "l", "e">>, <<"f", "o", "r", "m">>,
     <<"f", "o", "r", "m", "e">>, <<"f", "o", "u", "r">>, <<"f", "r", "o", "s", "t">>, <<"g", "a", "l", "a", "r">>, <<"g", "a", "l", "a", "r", "i", "a", "n">>, <<"h", "e", "a", "t">>,
     <<"h", "e", "r", "o">>, <<"h", "i", "s", "u", "i">>, <<"h", "i", "s", "u", "i", "a", "n">>, <<"l", "o", "w", "k", "e", "y">>, <<"m", "a", "l", "e">>, <<"m", "i", "d", "d", "a", "y">>,
     <<"m", "i", "d", "n", "i", "g", "h", "t">>, <<"m", "o", "w">>, <<"p", "a", "l", "d", "e", "a">>, <<"p", "a", "l", "d", "e", "a", "n">>, <<"p", "a", "t", "t", "e", "r", "n">>, <<"r", "o", "t", "o", "m">>,
     <<"s", "k", "y">>, <<"s", "t", "r", "e", "t", "c", "h", "y">>, <<"s", "t", "y", "l", "e">>, <<"t", "h", "r", "e", "e">>, <<"w", "a", "s", "h">>}

\* species_resolver.py 206: SKIP_WORDS
SKIP_WORDS ==
    {<<"a", "s", "p", "e", "c", "t">>, <<"b", "r", "e", "e", "d">>, <<"f", "o", "r", "m">>, <<"f", "o", "r", "m", "e">>, <<"m", "o", "d", "e">>, <<"o", "f">>,
     <<"p", "a", "t", "t", "e", "r", "n">>, <<"s", "t", "y", "l", "e">>, <<"t", "h", "e">>}

\* species_resolver.py 208: FORM_WORD_MAP
FORM_WORD_MAP ==
    <<"a", "l", "o", "l", "a", "n">> :> <<"A", "l", "o", "l", "a">> @@
    <<"a", "l", "o", "l", "a">> :> <<"A", "l", "o", "l", "a">> @@
    <<"g", "a", "l", "a", "r", "i", "a", "n">> :> <<"G", "a", "l", "a", "r">> @@
    <<"g", "a", "l", "a", "r">> :> <<"G", "a", "l", "a", "r">> @@
    <<"h", "i", "s", "u", "i", "a", "n">> :> <<"H", "i", "s", "u", "i">> @@
    <<"h", "i", "s", "u", "i">> :> <<"H", "i", "s", "u", "i">> @@
    <<"p", "a", "l", "d", "e", "a", "n">> :> <<"P", "a", "l", "d", "e", "a">> @@
    <<"p", "a", "l", "d", "e", "a">> :> <<"P", "a", "l", "d", "e", "a">> @@
    <<"m", "i", "d", "d", "a", "y">> :> <<"M", "i", "d", "d", "a", "y">> @@
    <<"m", "i", "d", "n", "i", "g", "h", "t">> :> <<"M", "i", "d", "n", "i", "g", "h", "t">> @@
    <<"d", "u", "s", "k">> :> <<"D", "u", "s", "k">> @@
    <<"d", "a", "w", "n">> :> <<"D", "a", "w", "n">> @@
    <<"w", "a", "s", "h">> :> <<"W", "a", "s", "h">> @@
    <<"h", "e", "a", "t">> :> <<"H", "e", "a", "t">> @@
    <<"f", "r", "o", "s", "t">> :> <<"F", "r", "o", "s", "t">> @@
    <<"f", "a", "n">> :> <<"F", "a", "n">> @@
    <<"m", "o", "w">> :> <<"M", "o", "w">> @@
    <<"a", "m", "p", "e", "d">> :> <<"A", "m", "p", "e", "d">> @@
    <<"l", "o", "w", "k", "e", "y">> :> <<"L", "o", "w", "K", "e", "y">> @@
    <<"d", "r", "o", "o", "p", "y">> :> <<"D", "r", "o", "o", "p", "y">> @@
    <<"c", "u", "r", "l", "y">> :> <<"C", "u", "r", "l", "y">> @@
    <<"s", "t", "r", "e", "t", "c", "h", "y">> :> <<"S", "t", "r", "e", "t", "c", "h", "y">> @@
    <<"b", "l", "o", "o", "d", "m", "o", "o", "n">> :> <<"B", "l", "o", "o", "d", "m", "o", "o", "n">> @@
    <<"h", "e", "r", "o">> :> <<"H", "e", "r", "o">> @@
    <<"c", "r", "o", "w", "n", "e", "d">> :> <<"C", "r", "o", "w", "n", "e", "d">> @@
    <<"s", "k", "y">> :> <<"S", "k", "y">> @@
    <<"a", "q", "u", "a">> :> <<"A", "q", "u", "a">> @@
    <<"b", "l", "a", "z", "e">> :> <<"B", "l", "a", "z", "e">> @@
    <<"c", "o", "m", "b", "a", "t">> :> <<"C", "o", "m", "b", "a", "t">> @@
    <<"f", "o", "u", "r">> :> <<"F", "o", "u", "r">> @@
    <<"t", "h", "r", "e", "e">> :> <<"T", "h", "r", "e", "e">> @@
    <<"m", "a", "s", "t", "e", "r", "p", "i", "e", "c", "e">> :> <<"M", "a", "s", "t", "e", "r", "p", "i", "e", "c", "e">> @@
    <<"u", "n", "r", "e", "m", "a", "r", "k", "a", "b", "l", "e">> :> <<"U", "n", "r", "e", "m", "a", "r", "k", "a", "b", "l", "e">>

\* species_resolver.py 244: GENDERED_FORMS, the same suffixes for each species
GENDERED_FORMS ==
    [base \in
    {<<"b", "a", "s", "c", "u", "l", "e", "g", "i", "o", "n">>, <<"b", "a", "s", "c", "u", "l", "i", "n">>, <<"i", "n", "d", "e", "e", "d", "e", "e">>,
     <<"m", "e", "o", "w", "s", "t", "i", "c">>, <<"o", "i", "n", "k", "o", "l", "o", "g", "n", "e">>, <<"p", "i", "k", "a", "c", "h", "u">>} |->
        [female |-> <<"-", "F">>, male |-> <<>>]]


\* species_resolver.py 254-256
_looks_like_descriptor(text) ==
    \E keyword \in DESCRIPTOR_KEYWORDS : Contains(LowerStr(text), keyword)

\* str.partition(sep): the part before the first sep, and the part after it
BeforeFirst(str, sep) ==
    IF sep \notin SeqToSet(str) THEN str
    ELSE SubSeq(str, 1, (CHOOSE i \in DOMAIN str :
                            str[i] = sep /\ \A j \in 1..(i - 1) : str[j] # sep) - 1)

AfterFirst(str, sep) ==
    IF sep \notin SeqToSet(str) THEN <<>>
    ELSE SubSeq(str, (CHOOSE i \in DOMAIN str :
                            str[i] = sep /\ \A j \in 1..(i - 1) : str[j] # sep) + 1,
                Len(str))

\* str.split(): the runs of characters that are not white space
SplitWhitespace(str) == SplitRuns(str, SeqToSet(str) \ {" "})

\* species_resolver.py 259-274: _extract_base_and_descriptor, as <<base, descriptor>>
_extract_base_and_descriptor(label) ==
    LET text == Strip(label)
        Enclosed(opener, closer) ==
            <<Strip(BeforeFirst(text, opener)),
              Strip(BeforeFirst(AfterFirst(text, opener), closer))>>
        Has(opener, closer) == opener \in SeqToSet(text) /\ closer \in SeqToSet(text)
        Trailing(tokens) ==
            LET Fits(idx) ==
                    _looks_like_descriptor(Join(SubSeq(tokens, idx + 1, Len(tokens)), <<" ">>))
                cuts == {idx \in 1..(Len(tokens) - 1) : Fits(idx)}
                Cut(idx) ==
                    <<Strip(Join(SubSeq(tokens, 1, idx), <<" ">>)),
                      Strip(Join(SubSeq(tokens, idx + 1, Len(tokens)), <<" ">>))>>
            IN IF cuts = {} THEN <<text, <<>>>>
               ELSE Cut(CHOOSE idx \in cuts : \A other \in cuts : other <= idx)
    IN IF Has("[", "]") THEN Enclosed("[", "]")
       ELSE IF Has("(", ")") THEN Enclosed("(", ")")
       ELSE Trailing(SplitWhitespace(text))

\* species_resolver.py 277-289: _apply_gender_form; None when the base has no
\* gendered forms
_apply_gender_form(base, descriptor) ==
    LET base_token == to_id(base)
        lower_desc == LowerStr(descriptor)
    IN IF base_token \notin DOMAIN GENDERED_FORMS THEN None
       ELSE IF Contains(lower_desc, <<"f", "e", "m", "a", "l", "e">>) \/ "FEMALESIGN" \in SeqToSet(lower_desc)
            THEN base \o GENDERED_FORMS[base_token].female
            ELSE base \o GENDERED_FORMS[base_token].male

\* species_resolver.py 313-323: the descriptor words kept, mapped
RECURSIVE CleanedWords(_, _)
CleanedWords(words, base_token) ==
    IF words = <<>> THEN <<>>
    ELSE LET word == Head(words)
             rest == CleanedWords(Tail(words), base_token)
         IN IF word \in SKIP_WORDS \/ word = base_token THEN rest
            ELSE IF word \in DOMAIN FORM_WORD_MAP THEN <<FORM_WORD_MAP[word]>> \o rest
            ELSE <<Capitalize(word)>> \o rest

\* species_resolver.py 292-329: _combine_descriptor
_combine_descriptor(base, descriptor) ==
    LET descriptor_lower ==
            LowerStr(ReplaceQuote(ReplaceChar(descriptor, "ENDASH", "-")))
        Has(word) == Contains(descriptor_lower, word)
        With(suffix) == base \o <<"-">> \o suffix
        Plain(cleaned) == IF cleaned # <<>> THEN With(Join(cleaned, <<"-">>)) ELSE base
        Gendered(gendered) ==
            IF gendered # None THEN gendered
            ELSE IF Has(<<"b", "l", "o", "o", "d", "m", "o", "o", "n">>) THEN With(<<"B", "l", "o", "o", "d", "m", "o", "o", "n">>)
            ELSE IF Has(<<"p", "a", "l", "d", "e", "a">>) \/ Has(<<"p", "a", "l", "d", "e", "a", "n">>)
                 THEN IF Has(<<"b", "l", "a", "z", "e">>) THEN With(<<"P", "a", "l", "d", "e", "a", "-", "B", "l", "a", "z", "e">>)
                      ELSE IF Has(<<"a", "q", "u", "a">>) THEN With(<<"P", "a", "l", "d", "e", "a", "-", "A", "q", "u", "a">>)
                      ELSE IF Has(<<"c", "o", "m", "b", "a", "t">>) THEN With(<<"P", "a", "l", "d", "e", "a", "-", "C", "o", "m", "b", "a", "t">>)
                      ELSE With(<<"P", "a", "l", "d", "e", "a">>)
            ELSE Plain(CleanedWords(SplitRuns(descriptor_lower, LowerAlnumChars),
                                    to_id(base)))
    IN Gendered(_apply_gender_form(base, descriptor_lower))

\* species_resolver.py 332-336: _normalize_species_label
_normalize_species_label(label) ==
    LET Combine(parts) ==
            IF parts[2] = <<>> THEN Strip(parts[1])
            ELSE _combine_descriptor(Strip(parts[1]), Strip(parts[2]))
    IN Combine(_extract_base_and_descriptor(label))

\* species_resolver.py 348-352: the tokens of the normalized label and of the
\* label itself, a set
ResolverTokens(name) ==
    {to_id(candidate) : candidate \in {_normalize_species_label(name), name} \ {None}}

\* species_resolver.py 339-371: resolve_species_id with the set of tokens
\* iterated in the given order (a set of str has no fixed iteration order);
\* order is a sequence holding each token once.
ResolveInOrder(alias_map, name, order) ==
    LET stripped_token == to_id(_extract_base_and_descriptor(name)[1])
        hits == {i \in DOMAIN order : order[i] \in DOMAIN alias_map}
        Fuzzy(seed) ==
            IF DOMAIN alias_map = {} THEN None
            ELSE Lookup(alias_map, get_close_match(seed, DOMAIN alias_map))
    IN IF hits # {}
       THEN alias_map[order[CHOOSE i \in hits : \A j \in hits : i <= j]]
       ELSE IF stripped_token \in DOMAIN alias_map THEN alias_map[stripped_token]
       ELSE Fuzzy(IF order # <<>> THEN order[1] ELSE stripped_token)

\* The orders a set can be iterated in
OrdersOf(S) ==
    {order \in [1..Cardinality(S) -> S] : \A i, j \in DOMAIN order : i # j => order[i] # order[j]}

(***************************************************************************)
(* move_resolver.py: the stand-alone move resolver.                        *)
(***************************************************************************)

\* move_resolver.py 116-128: the names a move is known by
MoveResolverNames(e) ==
    {e.id, e.name, e.shortDesc} \cup SeqToSet(e.aliases)

\* move_resolver.py 113-142: _build_alias_map
RECURSIVE MoveAliasFold(_, _)
MoveAliasFold(moves, m) ==
    IF moves = <<>> THEN m
    ELSE MoveAliasFold(Tail(moves),
            AddAliases(m, ExpandedNames(MoveResolverNames(Head(moves))) \ {None},
                       Head(moves).id))

build_move_alias_map(moves) == MoveAliasFold(moves, <<>>)

\* move_resolver.py 145: PAREN_PATTERN.sub(sep, text), each "(" up to the
\* nearest ")" after it replaced
RECURSIVE SubParens(_, _)
SubParens(text, sep) ==
    IF "(" \notin SeqToSet(text) \/ ")" \notin SeqToSet(AfterFirst(text, "(")) THEN text
    ELSE BeforeFirst(text, "(") \o sep
            \o SubParens(AfterFirst(AfterFirst(text, "("), ")"), sep)

\* move_resolver.py 146-154
STRIP_WORDS ==
    {<<"s", "i", "n", "g", "l", "e", "s">>, <<"d", "o", "u", "b", "l", "e", "s">>, <<"t", "r", "i", "p", "l", "e", "s">>, <<"b", "a", "t", "t", "l", "e">>, <<"m", "o", "d", "e">>, <<"f", "o", "r", "m">>, <<"f", "o", "r", "m", "s">>}

\* move_resolver.py 157-171: normalize_move_name
move_normalize_move_name(name) ==
    LET text == SubParens(LowerStr(NFKD(name)), <<" ">>)
        tokens == SelectSeq(SplitRuns(text, LowerAlnumChars),
                            LAMBDA token : token \notin STRIP_WORDS)
    IN Join(tokens, <<>>)

\* move_resolver.py 174-186: _normalize_move_input, as the set its list holds
_normalize_move_input(name) ==
    LET cleaned == Strip(name)
        no_paren == Strip(SubParens(cleaned, <<>>))
        tokens == SplitWhitespace(ReplaceChar(cleaned, "-", " "))
        without_last ==
            IF Len(tokens) > 1
            THEN Strip(Join(SubSeq(tokens, 1, Len(tokens) - 1), <<" ">>))
            ELSE <<>>
    IN {cleaned, no_paren, without_last} \ {<<>>}

\* move_resolver.py 203-208: the tokens looked up, a set
MoveResolverTokens(name) ==
    LET tokens == {move_normalize_move_name(candidate) :
                        candidate \in _normalize_move_input(name)}
    IN IF tokens # {} THEN tokens
       ELSE {move_normalize_move_name(name)} \ {<<>>}

\* move_resolver.py 189-223: resolve_move_id with the set of tokens iterated
\* in the given order; max(tokens, key=len) is the first of the longest
MoveResolveInOrder(alias_map, name, order) ==
    LET hits == {i \in DOMAIN order : order[i] \in DOMAIN alias_map}
        longest == {i \in DOMAIN order : \A j \in DOMAIN order : Len(order[j]) <= Len(order[i])}
        seed == IF order # <<>>
                THEN order[CHOOSE i \in longest : \A j \in longest : i <= j]
                ELSE move_normalize_move_name(name)
        Fuzzy(word) ==
            IF word = <<>> \/ DOMAIN alias_map = {} THEN None
            ELSE Lookup(alias_map, get_close_match(word, DOMAIN alias_map))
    IN IF hits # {}
       THEN alias_map[order[CHOOSE i \in hits : \A j \in hits : i <= j]]
       ELSE Fuzzy(seed)

(***************************************************************************)
(* Queries: one call of a conversion, legality, eligibility or resolution  *)
(* operation on a loaded reference dataset.                                *)
(***************************************************************************)

\* The reference datasets the queries run on, as the payloads handed to
\* ShowdownData.from_payloads (tournament_teams_extraction.py 353-374).
Data_vgc ==
    [pokedex |-> <<[Entry(<<"f", "l", "u", "t", "t", "e", "r", "m", "a", "n", "e">>, <<"F", "l", "u", "t", "t", "e", "r", " ", "M", "a", "n", "e">>, <<>>, <<>>) EXCEPT !.tags = <<<<"P", "a", "r", "a", "d", "o", "x">>>>],
               Entry(<<"c", "o", "n", "k", "e", "l", "d", "u", "r", "r">>, <<"C", "o", "n", "k", "e", "l", "d", "u", "r", "r">>, <<>>, <<>>),
               [Entry(<<"u", "n", "o", "w", "n">>, <<"U", "n", "o", "w", "n">>, <<>>, <<>>) EXCEPT !.isNonstandard = <<"P", "a", "s", "t">>],
               [Entry(<<"m", "e", "w">>, <<"M", "e", "w">>, <<>>, <<>>) EXCEPT !.tags = <<<<"M", "y", "t", "h", "i", "c", "a", "l">>>>],
               [Entry(<<"p", "e", "c", "h", "a", "r", "u", "n", "t">>, <<"P", "e", "c", "h", "a", "r", "u", "n", "t">>, <<>>, <<>>) EXCEPT !.tags = <<<<"M", "y", "t", "h", "i", "c", "a", "l">>>>, !.isNonstandard = <<"F", "u", "t", "u", "r", "e">>]>>,
     moves |-> <<Entry(<<"s", "h", "a", "d", "o", "w", "b", "a", "l", "l">>, <<"S", "h", "a", "d", "o", "w", " ", "B", "a", "l", "l">>, <<>>, <<>>),
             Entry(<<"m", "o", "o", "n", "b", "l", "a", "s", "t">>, <<"M", "o", "o", "n", "b", "l", "a", "s", "t">>, <<>>, <<>>),
             Entry(<<"w", "i", "d", "e", "g", "u", "a", "r", "d">>, <<"W", "i", "d", "e", " ", "G", "u", "a", "r", "d">>, <<>>, <<>>)>>,
     items |-> <<Entry(<<"f", "o", "c", "u", "s", "s", "a", "s", "h">>, <<"F", "o", "c", "u", "s", " ", "S", "a", "s", "h">>, <<>>, <<>>)>>,
     abilities |-> <<Entry(<<"p", "r", "o", "t", "o", "s", "y", "n", "t", "h", "e", "s", "i", "s">>, <<"P", "r", "o", "t", "o", "s", "y", "n", "t", "h", "e", "s", "i", "s">>, <<>>, <<>>)>>,
     learnsets |-> (<<"f", "l", "u", "t", "t", "e", "r", "m", "a", "n", "e">> :> {<<"s", "h", "a", "d", "o", "w", "b", "a", "l", "l">>, <<"m", "o", "o", "n", "b", "l", "a", "s", "t">>} @@ <<"c", "o", "n", "k", "e", "l", "d", "u", "r", "r">> :> {<<"s", "h", "a", "d", "o", "w", "b", "a", "l", "l">>} @@ <<"m", "e", "w">> :> {<<"s", "h", "a", "d", "o", "w", "b", "a", "l", "l">>, <<"m", "o", "o", "n", "b", "l", "a", "s", "t">>, <<"w", "i", "d", "e", "g", "u", "a", "r", "d">>}),
     formats_data |-> (<<"f", "l", "u", "t", "t", "e", "r", "m", "a", "n", "e">> :> <<>> @@ <<"m", "e", "w">> :> <<"U", "n", "o", "b", "t", "a", "i", "n", "a", "b", "l", "e">> @@ <<"c", "o", "n", "k", "e", "l", "d", "u", "r", "r">> :> <<>>),
     formats |-> <<Format(<<"[", "G", "e", "n", " ", "9", "]", " ", "V", "G", "C", " ", "2", "0", "2", "5", " ", "R", "e", "g", " ", "I">>, <<>>, <<"d", "o", "u", "b", "l", "e", "s">>, <<>>),
              Format(<<"[", "G", "e", "n", " ", "9", "]", " ", "V", "G", "C", " ", "2", "0", "2", "5", " ", "R", "e", "g", " ", "H">>, <<"g", "e", "n", "9", "v", "g", "c", "2", "0", "2", "5", "r", "e", "g", "h">>, <<"d", "o", "u", "b", "l", "e", "s">>, <<<<"P", "a", "r", "a", "d", "o", "x">>, <<"M", "y", "t", "h", "i", "c", "a", "l">>>>),
              Format(<<"[", "G", "e", "n", " ", "9", "]", " ", "V", "G", "C", " ", "2", "0", "2", "4", " ", "R", "e", "g", " ", "G">>, <<>>, <<"d", "o", "u", "b", "l", "e", "s">>, <<<<"C", "o", "n", "k", "e", "l", "d", "u", "r", "r">>>>),
              Format(<<"[", "G", "e", "n", " ", "9", "]", " ", "V", "G", "C", " ", "S", "o", "l", "o">>, <<>>, <<"s", "i", "n", "g", "l", "e", "s">>, <<>>),
              Format(<<"[", "G", "e", "n", " ", "9", "]", " ", "O", "U">>, <<>>, <<>>, <<>>)>>]

Data_formefirst ==
    [pokedex |-> <<Entry(<<"m", "u", "k", "a", "l", "o", "l", "a">>, <<"M", "u", "k", "-", "A", "l", "o", "l", "a">>, <<"M", "u", "k">>, <<"A", "l", "o", "l", "a">>),
               [Entry(<<"m", "u", "k">>, <<"M", "u", "k">>, <<>>, <<>>) EXCEPT !.otherFormes = <<<<"M", "u", "k", "-", "A", "l", "o", "l", "a">>>>]>>,
     moves |-> <<Entry(<<"c", "u", "t">>, <<"C", "u", "t">>, <<>>, <<>>),
             Entry(<<"s", "u", "r", "f">>, <<"S", "u", "r", "f">>, <<>>, <<>>)>>,
     items |-> <<>>,
     abilities |-> <<>>,
     learnsets |-> (<<"m", "u", "k">> :> {<<"c", "u", "t">>} @@ <<"m", "u", "k", "a", "l", "o", "l", "a">> :> {<<"s", "u", "r", "f">>}),
     formats_data |-> <<>>,
     formats |-> <<>>]

Data_basefirst ==
    [pokedex |-> <<[Entry(<<"m", "u", "k">>, <<"M", "u", "k">>, <<>>, <<>>) EXCEPT !.otherFormes = <<<<"M", "u", "k", "-", "A", "l", "o", "l", "a">>>>],
               Entry(<<"m", "u", "k", "a", "l", "o", "l", "a">>, <<"M", "u", "k", "-", "A", "l", "o", "l", "a">>, <<"M", "u", "k">>, <<"A", "l", "o", "l", "a">>)>>,
     moves |-> <<Entry(<<"c", "u", "t">>, <<"C", "u", "t">>, <<>>, <<>>),
             Entry(<<"s", "u", "r", "f">>, <<"S", "u", "r", "f">>, <<>>, <<>>)>>,
     items |-> <<>>,
     abilities |-> <<>>,
     learnsets |-> (<<"m", "u", "k">> :> {<<"c", "u", "t">>} @@ <<"m", "u", "k", "a", "l", "o", "l", "a">> :> {<<"s", "u", "r", "f">>}),
     formats_data |-> <<>>,
     formats |-> <<>>]

Data_siblings ==
    [pokedex |-> <<Entry(<<"m", "u", "k", "a", "l", "o", "l", "a">>, <<"M", "u", "k", "-", "A", "l", "o", "l", "a">>, <<"M", "u", "k">>, <<"A", "l", "o", "l", "a">>),
               Entry(<<"m", "u", "k", "g", "a", "l", "a", "r">>, <<"M", "u", "k", "-", "G", "a", "l", "a", "r">>, <<"M", "u", "k">>, <<"G", "a", "l", "a", "r">>)>>,
     moves |-> <<Entry(<<"c", "u", "t">>, <<"C", "u", "t">>, <<>>, <<>>),
             Entry(<<"s", "u", "r", "f">>, <<"S", "u", "r", "f">>, <<>>, <<>>)>>,
     items |-> <<>>,
     abilities |-> <<>>,
     learnsets |-> (<<"m", "u", "k", "a", "l", "o", "l", "a">> :> {<<"s", "u", "r", "f">>} @@ <<"m", "u", "k", "g", "a", "l", "a", "r">> :> {<<"c", "u", "t">>}),
     formats_data |-> <<>>,
     formats |-> <<>>]

Data_species ==
    [pokedex |-> <<Entry(<<"s", "l", "o", "w", "b", "r", "o", "g", "a", "l", "a", "r">>, <<"S", "l", "o", "w", "b", "r", "o", "-", "G", "a", "l", "a", "r">>, <<>>, <<>>),
               Entry(<<"t", "a", "u", "r", "o", "s", "p", "a", "l", "d", "e", "a", "a", "q", "u", "a">>, <<"T", "a", "u", "r", "o", "s", "-", "P", "a", "l", "d", "e", "a", "-", "A", "q", "u", "a">>, <<>>, <<>>),
               Entry(<<"s", "i", "n", "i", "s", "t", "c", "h", "a", "u", "n", "r", "e", "m", "a", "r", "k", "a", "b", "l", "e">>, <<"S", "i", "n", "i", "s", "t", "c", "h", "a", "-", "U", "n", "r", "e", "m", "a", "r", "k", "a", "b", "l", "e">>, <<>>, <<>>),
               Entry(<<"b", "a", "s", "c", "u", "l", "e", "g", "i", "o", "n", "f">>, <<"B", "a", "s", "c", "u", "l", "e", "g", "i", "o", "n", "-", "F">>, <<>>, <<>>),
               Entry(<<"b", "a", "s", "c", "u", "l", "e", "g", "i", "o", "n">>, <<"B", "a", "s", "c", "u", "l", "e", "g", "i", "o", "n">>, <<>>, <<>>),
               Entry(<<"l", "a", "n", "d", "o", "r", "u", "s">>, <<"L", "a", "n", "d", "o", "r", "u", "s">>, <<>>, <<>>),
               Entry(<<"t", "a", "p", "u", "k", "o", "k", "o">>, <<"T", "a", "p", "u", " ", "K", "o", "k", "o">>, <<>>, <<>>)>>,
     moves |-> <<>>,
     items |-> <<>>,
     abilities |-> <<>>,
     learnsets |-> <<>>,
     formats_data |-> <<>>,
     formats |-> <<Format(<<"[", "G", "e", "n", " ", "9", "]", " ", "V", "G", "C", " ", "2", "0", "2", "5">>, <<"g", "e", "n", "9", "v", "g", "c", "2", "0", "2", "5">>, <<"d", "o", "u", "b", "l", "e", "s">>, <<>>)>>]
Data_movedex ==
    [pokedex |-> <<>>,
     moves |-> <<Entry(<<"h", "y", "d", "r", "o", "p", "u", "m", "p">>, <<"H", "y", "d", "r", "o", " ", "P", "u", "m", "p">>, <<>>, <<>>),
             Entry(<<"s", "h", "a", "d", "o", "w", "b", "a", "l", "l">>, <<"S", "h", "a", "d", "o", "w", " ", "B", "a", "l", "l">>, <<>>, <<>>),
             Entry(<<"i", "c", "y", "w", "i", "n", "d">>, <<"I", "c", "y", " ", "W", "i", "n", "d">>, <<>>, <<>>),
             Entry(<<"f", "a", "k", "e", "o", "u", "t">>, <<"F", "a", "k", "e", " ", "O", "u", "t">>, <<>>, <<>>),
             Entry(<<"p", "o", "p", "b", "o", "m", "b">>, <<"P", "o", "p", "u", "l", "a", "t", "i", "o", "n", " ", "B", "o", "m", "b">>, <<>>, <<>>),
             Entry(<<"e", "l", "e", "c", "t", "r", "o", "s", "h", "o", "t">>, <<"E", "l", "e", "c", "t", "r", "o", " ", "S", "h", "o", "t">>, <<>>, <<>>),
             Entry(<<"t", "h", "u", "n", "d", "e", "r">>, <<"T", "h", "u", "n", "d", "e", "r">>, <<>>, <<>>),
             Entry(<<"t", "h", "u", "n", "d", "e", "r", "p", "u", "n", "c", "h">>, <<"T", "h", "u", "n", "d", "e", "r", " ", "P", "u", "n", "c", "h">>, <<>>, <<>>)>>,
     items |-> <<>>,
     abilities |-> <<>>,
     learnsets |-> <<>>,
     formats_data |-> <<>>,
     formats |-> <<>>]

Datasets ==
    [vgc |-> Data_vgc, formefirst |-> Data_formefirst, basefirst |-> Data_basefirst,
     siblings |-> Data_siblings, species |-> Data_species, movedex |-> Data_movedex]

\* The ShowdownData object built from each dataset
Showdowns ==
    [data \in DOMAIN Datasets |->
        LET d == Datasets[data]
        IN from_payloads(d.pokedex, d.moves, d.items, d.abilities, d.learnsets,
                         d.formats_data, d.formats)]

ShowdownOf(data) == Showdowns[data]

\* The same datasets as showdown_manager.ShowdownData holds them: its species
\* alias map is built base forms first (showdown_manager.py 213-275)
ManagerShowdowns ==
    [data \in DOMAIN Datasets |->
        [Showdowns[data] EXCEPT
            !.species_alias_map = BuildSpeciesAliasMap("sm", Datasets[data].pokedex)]]

IdsOf(records) == {records[i].id : i \in DOMAIN records}

\* Move labels of a roster slot: exact names, a misspelt one, an unknown one.
MoveLabels ==
    {<<"S", "h", "a", "d", "o", "w", " ", "B", "a", "l", "l">>, <<"M", "o", "o", "n", "b", "l", "a", "s", "t">>, <<"W", "i", "d", "e", " ", "G", "u", "a", "r", "d">>, <<"M", "o", "o", "n", "b", "l", "s", "t">>, <<"N", "o", "n", "e", "x", "i", "s", "t", "e", "n", "t", " ", "M", "o", "v", "e">>}

BadgeLists == UNION {[1..n -> MoveLabels] : n \in 0..MaxMoves}

\* Tera type, ability and item of a slot: absent, known, unknown.
SlotExtras ==
    {<<None, None, None>>,
     <<<<"S", "t", "e", "l", "l", "a", "r">>, <<"P", "r", "o", "t", "o", "s", "y", "n", "t", "h", "e", "s", "i", "s">>, <<"F", "o", "c", "u", "s", " ", "S", "a", "s", "h">>>>,
     <<<<"S", "p", "a", "r", "k", "l", "y">>, <<"L", "e", "v", "i", "t", "a", "t", "e">>, <<"O", "l", "d", " ", "A", "m", "b", "e", "r">>>>,
     <<<<"G", "h", "o", "s", "t">>, <<"L", "e", "v", "i", "t", "a", "t", "e">>, None>>}

SlotNames == {<<"F", "l", "u", "t", "t", "e", "r", " ", "M", "a", "n", "e">>, <<"C", "o", "n", "k", "e", "l", "d", "u", "r", "r">>, <<"M", "i", "s", "s", "i", "n", "g", "n", "o">>}

SlotPool ==
    {FullSlot(n, x[1], x[2], x[3], b) : n \in SlotNames, x \in SlotExtras, b \in BadgeLists}

\* Species labels with a descriptor
DescriptorLabels ==
    {<<"S", "l", "o", "w", "b", "r", "o", " ", "[", "G", "a", "l", "a", "r", "i", "a", "n", " ", "F", "o", "r", "m", "]">>, <<"T", "a", "u", "r", "o", "s", " ", "[", "P", "a", "l", "d", "e", "a", "n", " ", "F", "o", "r", "m", " ", "-", " ", "A", "q", "u", "a", " ", "B", "r", "e", "e", "d", "]">>,
     <<"B", "a", "s", "c", "u", "l", "e", "g", "i", "o", "n", " ", "[", "F", "e", "m", "a", "l", "e", "]">>, <<"L", "a", "n", "d", "o", "r", "u", "s", " ", "[", "I", "n", "c", "a", "r", "n", "a", "t", "e", " ", "F", "o", "r", "m", "e", "]">>,
     <<"S", "i", "n", "i", "s", "t", "c", "h", "a", " ", "[", "U", "n", "r", "e", "m", "a", "r", "k", "a", "b", "l", "e", " ", "F", "o", "r", "m", "]">>, <<"T", "a", "p", "u", " ", "K", "o", "k", "o", " ", "[", "S", "h", "i", "n", "y", "]">>}

\* Rosters of a player
RosterSlots ==
    {FullSlot(<<"F", "l", "u", "t", "t", "e", "r", " ", "M", "a", "n", "e">>, None, None, None, <<<<"S", "h", "a", "d", "o", "w", " ", "B", "a", "l", "l">>>>),
     FullSlot(<<"C", "o", "n", "k", "e", "l", "d", "u", "r", "r">>, <<"S", "p", "a", "r", "k", "l", "y">>, None, None, <<<<"W", "i", "d", "e", " ", "G", "u", "a", "r", "d">>, <<"N", "o", "n", "e", "x", "i", "s", "t", "e", "n", "t", " ", "M", "o", "v", "e">>>>),
     FullSlot(<<"M", "i", "s", "s", "i", "n", "g", "n", "o">>, None, None, None, <<>>)}

Rosters == UNION {[1..n -> RosterSlots] : n \in 0..MaxSlots}

\* The alias map species_resolver builds from the pokedex of each dataset
ResolverAliases ==
    [data \in DOMAIN Datasets |-> _build_alias_map(Datasets[data].pokedex)]

\* The two species resolvers: ShowdownData.resolve_species_id and
\* species_resolver.resolve_species_id
Resolvers == {"tte", "sr"}

\* Species labels asked for: with a descriptor in brackets or parentheses or
\* as trailing words, plain, misspelt, unknown.
SpeciesLabels ==
    DescriptorLabels
    \cup {<<"B", "a", "s", "c", "u", "l", "e", "g", "i", "o", "n", " ", "[", "F", "]">>, <<"B", "a", "s", "c", "u", "l", "e", "g", "i", "o", "n", " ", "(", "M", "a", "l", "e", ")">>, <<"T", "a", "p", "u", " ", "K", "o", "k", "o", "o", " ", "[", "S", "h", "i", "n", "y", "]">>,
          <<"L", "a", "n", "d", "o", "r", "u", "s">>, <<"S", "l", "o", "w", "b", "r", "o", " ", "G", "a", "l", "a", "r", "i", "a", "n", " ", "F", "o", "r", "m">>, <<"M", "i", "s", "s", "i", "n", "g", "n", "o">>}

\* The alias map move_resolver builds from the moves of each dataset
MoveResolverAliases ==
    [data \in DOMAIN Datasets |-> build_move_alias_map(Datasets[data].moves)]

\* Move labels asked for: exact, hyphenated, misspelt, unknown, a known move
\* followed by another word
PlainMoveLabels ==
    {<<"E", "l", "e", "c", "t", "r", "o", " ", "S", "h", "o", "t">>, <<"I", "c", "y", " ", "W", "i", "n", "d">>, <<"T", "h", "u", "n", "d", "e", "r", " ", "P", "u", "n", "c", "h">>, <<"T", "h", "u", "n", "d", "e", "r">>, <<"H", "i", "d", "r", "o", " ", "P", "o", "m", "p">>,
     <<"F", "a", "k", "e", "-", "O", "u", "t">>, <<"P", "o", "p", " ", "B", "o", "m", "b">>, <<"T", "h", "u", "n", "d", "e", "r", " ", "S", "h", "o", "c", "k", "w", "a", "v", "e">>, <<"T", "o", "t", "a", "l", "l", "y", " ", "M", "a", "d", "e", " ", "U", "p", " ", "M", "o", "v", "e">>}

\* Battle-mode qualifiers a label may be followed by; None for no qualifier
ModeQualifiers == {None, <<"(", "S", "i", "n", "g", "l", "e", "s", ")">>, <<"(", "D", "o", "u", "b", "l", "e", "s", ")">>}

Qualified(label, qualifier) ==
    IF qualifier = None THEN label ELSE label \o <<" ">> \o qualifier

NoQuery == [op |-> "none", data |-> "vgc"]

MoveQueries ==
    {[op |-> "move", data |-> "movedex", impl |-> i, label |-> l, qualifier |-> q] :
        i \in {"tte", "mr"}, l \in PlainMoveLabels, q \in ModeQualifiers}

SpeciesQueries ==
    {[op |-> "species", data |-> "species", impl |-> i, label |-> l] :
        i \in Resolvers, l \in SpeciesLabels}

IdAlphabet == {"a", "B", "7", " ", "'", "UEACUTE", "RSQUO", "FEMALESIGN"}

IdInputs == UNION {[1..n -> IdAlphabet] : n \in 0..MaxIdLen}

ToIdQueries ==
    {[op |-> "toid", data |-> "vgc", impl |-> i, value |-> v] :
        i \in {"tte", "sm"}, v \in IdInputs}

ConvertQueries ==
    {[op |-> "convert", data |-> "vgc", slot |-> s] : s \in SlotPool}
    \cup {[op |-> "convert", data |-> "species", slot |-> Slot(l)] : l \in DescriptorLabels}

TransformQueries ==
    {[op |-> "transform", data |-> "vgc",
      player |-> [name |-> <<"A", "n", "a", " ", "[", "U", "S", "]">>, placing |-> <<1>>, decklist |-> r]] : r \in Rosters}

CanLearnQueries ==
    UNION {{[op |-> "canlearn", data |-> d, impl |-> i, species |-> s, move |-> m] :
                i \in Implementations,
                s \in IdsOf(Datasets[d].pokedex) \cup {<<"m", "i", "s", "s", "i", "n", "g", "n", "o">>},
                m \in IdsOf(Datasets[d].moves)} :
           d \in {"vgc", "formefirst", "basefirst", "siblings"}}

FormatsQueries ==
    UNION {{[op |-> "formats", data |-> d, impl |-> i, species |-> s] :
                i \in Implementations,
                s \in IdsOf(Datasets[d].pokedex) \cup {<<"m", "i", "s", "s", "i", "n", "g", "n", "o">>}} :
           d \in {"vgc", "species"}}

SpeciesNamesAsked ==
    {<<"F", "l", "u", "t", "t", "e", "r", " ", "M", "a", "n", "e">>, <<"C", "o", "n", "k", "e", "l", "d", "u", "r", "r">>, <<"U", "n", "o", "w", "n">>, <<"M", "e", "w">>, <<"P", "e", "c", "h", "a", "r", "u", "n", "t">>, <<"M", "i", "s", "s", "i", "n", "g", "n", "o">>}

FormatNamesAsked ==
    {Data_vgc.formats[i].name : i \in DOMAIN Data_vgc.formats} \cup {<<"[", "G", "e", "n", " ", "9", "]", " ", "N", "o", "p", "e">>}

InFormatQueries ==
    {[op |-> "informat", data |-> "vgc", species |-> s, format |-> f] :
        s \in SpeciesNamesAsked, f \in FormatNamesAsked}

QueryStart ==
    /\ \/ query \in ConvertQueries
       \/ query \in InFormatQueries
       \/ query \in TransformQueries
       \/ query \in CanLearnQueries
       \/ query \in FormatsQueries
       \/ query \in SpeciesQueries
       \/ query \in MoveQueries
       \/ query \in ToIdQueries
    /\ qDone = FALSE
    /\ answer = None

\* The module state a query of showdown_data_manager finds: the dataset of
\* the query is loaded, and the species alias map is not built, built from
\* the loaded pokedex, or left over from the pokedex loaded before a forced
\* reload (lines 207-208 reset _ALIAS_CACHE[name] for the dataset name
\* pokedex, which is not a key of _ALIAS_CACHE).  The other queries take
\* their data as arguments and find the module as it is after import.
QueryCaches ==
    IF query.op = "informat"
    THEN /\ dataRemote = [n \in DataNames |-> 1]
         /\ dataDisk = [n \in DataNames |-> DataOf(Datasets[query.data][n])]
         /\ dataCache = [n \in DataNames |-> DataOf(Datasets[query.data][n])]
         /\ aliasCache \in
               {[k \in Kinds |-> IF k = "species" THEN c ELSE NotBuilt] :
                   c \in {NotBuilt,
                          BuiltMap(BuildAliasMap("species", Datasets[query.data].pokedex)),
                          BuiltMap(BuildAliasMap("species", Payloads["pokedex"][1]))}}
         /\ lastResolve = NoResolve
         /\ lastLoad = NoLoad
         /\ loadCalls = 0
         /\ dataChanges = 0
    ELSE LoadQuiet

QueryQuiet ==
    /\ query = NoQuery
    /\ qDone = FALSE
    /\ answer = None

Asked(op) == query.op = op /\ ~qDone

Returned(op) == query.op = op /\ qDone

\* convert_decklist_entry(slot, showdown_data)
Convert ==
    /\ Asked("convert")
    /\ answer' = convert_decklist_entry(query.slot, ShowdownOf(query.data))
    /\ qDone' = TRUE
    /\ UNCHANGED <<query, notQuery>>

\* transform_player(player, showdown_data)
Transform ==
    /\ Asked("transform")
    /\ answer' = transform_player(query.player, ShowdownOf(query.data))
    /\ qDone' = TRUE
    /\ UNCHANGED <<query, notQuery>>

\* validate_move_learnset(showdown_data, species_id, move_id), or
\* ShowdownManager.can_species_learn_move(species_id, move_id)
CanLearn ==
    /\ Asked("canlearn")
    /\ answer' = IF query.impl = "tte"
                 THEN validate_move_learnset(ShowdownOf(query.data),
                                             query.species, query.move)
                 ELSE can_species_learn_move(ManagerShowdowns[query.data],
                                             query.species, query.move)
    /\ qDone' = TRUE
    /\ UNCHANGED <<query, notQuery>>

\* determine_valid_formats(showdown_data, species_id), or
\* ShowdownManager.determine_valid_formats(species_id), which has the same body
\* (showdown_manager.py 577-610)
ValidFormats ==
    /\ Asked("formats")
    /\ answer' = IF query.impl = "tte"
                 THEN determine_valid_formats(ShowdownOf(query.data), query.species)
                 ELSE determine_valid_formats(ManagerShowdowns[query.data],
                                              query.species)
    /\ qDone' = TRUE
    /\ UNCHANGED <<query, notQuery>>

\* showdown_data_manager.validate_species_in_format(species_name, format_name):
\* resolve_species_id (line 351) takes the species alias map of _ALIAS_CACHE,
\* building and storing it when it is not usable; the format entry and the
\* formats-data come from the cached datasets (_FORMAT_ID_MAP is derived from
\* the cached formats list and reset whenever that list is reloaded).
ValidateInFormat ==
    /\ Asked("informat")
    /\ LET st == GetAliasMapOn(CurrentData, "species", TRUE) IN
       /\ dataDisk' = st.disk
       /\ dataCache' = st.cache
       /\ aliasCache' = st.alias
       /\ answer' = validate_species_in_format(st.alias["species"].map,
                                               st.cache["formats"].records,
                                               st.cache["formats_data"].records,
                                               query.species, query.format)
    /\ qDone' = TRUE
    /\ UNCHANGED <<dataRemote, lastResolve, lastLoad, loadCalls, dataChanges>>
    /\ UNCHANGED <<query, fetchVars, aliasVars, pipeVars, poolVars>>

\* ShowdownData.resolve_species_id(label), or
\* species_resolver.resolve_species_id(label) with its set of tokens iterated
\* in any order
ResolveSpecies ==
    /\ Asked("species")
    /\ \/ /\ query.impl = "tte"
          /\ answer' = resolve_species_id(ShowdownOf(query.data), query.label)
       \/ /\ query.impl = "sr"
          /\ \E order \in OrdersOf(ResolverTokens(query.label)) :
                answer' = ResolveInOrder(ResolverAliases[query.data], query.label, order)
    /\ qDone' = TRUE
    /\ UNCHANGED <<query, notQuery>>

\* ShowdownData.resolve_move_id(name), or move_resolver.resolve_move_id(name)
\* with its set of tokens iterated in any order
ResolveMove ==
    /\ Asked("move")
    /\ \/ /\ query.impl = "tte"
          /\ answer' = resolve_move_id(ShowdownOf(query.data),
                                       Qualified(query.label, query.qualifier))
       \/ /\ query.impl = "mr"
          /\ \E order \in OrdersOf(MoveResolverTokens(Qualified(query.label, query.qualifier))) :
                answer' = MoveResolveInOrder(MoveResolverAliases[query.data],
                                             Qualified(query.label, query.qualifier), order)
    /\ qDone' = TRUE
    /\ UNCHANGED <<query, notQuery>>

\* to_id(value) of tournament_teams_extraction.py or of showdown_manager.py
ToId ==
    /\ Asked("toid")
    /\ answer' = IF query.impl = "tte" THEN tte_to_id(query.value)
                 ELSE to_id(query.value)
    /\ qDone' = TRUE
    /\ UNCHANGED <<query, notQuery>>

QueryNext ==
    \/ ToId
    \/ ResolveMove
    \/ ResolveSpecies
    \/ ValidateInFormat
    \/ Convert
    \/ Transform
    \/ CanLearn
    \/ ValidFormats

(***************************************************************************)
(* The two pools of process_tournaments (tournament_teams_extraction.py    *)
(* 659-694): a thread pool of max_workers threads runs process_tournament  *)
(* for each tournament, and every such worker submits its player           *)
(* conversions to one shared process pool and waits for them.              *)
(***************************************************************************)
\* line 670: max(os.cpu_count() or 2, 2)
ProcessPoolSize(cpus) == IF cpus > 2 THEN cpus ELSE 2

\* A process_tournament call: its status, the target divisions it has left,
\* the players of the division it has still to submit, its conversions
\* queued and running in the process pool, its conversions that ended by
\* raising and whose future it has not yet asked, and whether the collecting
\* loop has accounted for it
IdleWorker ==
    [status |-> "unsubmitted", left |-> 0, tosubmit |-> 0, queued |-> 0, running |-> 0,
     broken |-> 0, accounted |-> 0]

PoolStart ==
    /\ pool \in {[pc |-> "start", max_workers |-> w, processes |-> ProcessPoolSize(c),
                  shut |-> FALSE, late |-> FALSE] : w \in 1..MaxWorkers, c \in 1..MaxCpus}
    /\ worker = [t \in Tournaments |-> IdleWorker]

PoolQuiet ==
    /\ pool = [pc |-> "start", max_workers |-> 1, processes |-> 2,
               shut |-> FALSE, late |-> FALSE]
    /\ worker = [t \in Tournaments |-> IdleWorker]

\* process_tournament of t has returned or raised
Ended(t) == worker[t].status \in {"returned", "raised"}

\* Threads of the executor that run a process_tournament call, and
\* processes of the process pool that run a transform_player call
RECURSIVE SumOver(_, _)
SumOver(S, f) ==
    IF S = {} THEN 0
    ELSE LET x == CHOOSE y \in S : TRUE IN f[x] + SumOver(S \ {x}, f)

BusyThreads ==
    Cardinality({t \in Tournaments : worker[t].status \in {"fetching", "submitting", "waiting"}})
BusyProcesses == SumOver(Tournaments, [t \in Tournaments |-> worker[t].running])

\* lines 686-692: the as_completed loop ends when every future was yielded
LoopEnded_AtOnce == TRUE
LoopEnded == \A t \in Tournaments : worker[t].accounted = 1

\* lines 673-684: the next tournament of the list is submitted to the
\* executor; after the last one the as_completed loop begins
PoolSubmit ==
    /\ pool.pc = "start"
    /\ LET t == NextSubmitted([u \in Tournaments |-> worker[u].status]) IN
       /\ worker' = [worker EXCEPT ![t].status = "queued"]
       /\ pool' = [pool EXCEPT !.pc = IF t = TournamentOrder[Len(TournamentOrder)]
                                      THEN "gather" ELSE "start"]
    /\ UNCHANGED notPool

\* A free thread of the executor starts process_tournament for t: lines
\* 632-633, fetch_divisions, which may raise, and the target divisions
WorkerStart(t) ==
    /\ worker[t].status = "queued"
    /\ BusyThreads < pool.max_workers
    /\ \E ok \in BOOLEAN, listed \in SUBSET Offered[t] :
         LET n == Len(TargetOf(fetch_divisions(listed))) IN
         worker' = [worker EXCEPT
                      ![t].status = IF ~ok THEN "raised"
                                    ELSE IF n = 0 THEN "returned" ELSE "fetching",
                      ![t].left = IF ok THEN n ELSE 0]
    /\ UNCHANGED <<pool, notPool>>

\* lines 636-641: fetch_division_payload, which may raise, gives the players
\* of the division
WorkerFetch(t) ==
    /\ worker[t].status = "fetching"
    /\ \E ok \in BOOLEAN, n \in 0..MaxPlayers :
         worker' = [worker EXCEPT
                      ![t].status = IF ok THEN "submitting" ELSE "raised",
                      ![t].tosubmit = IF ok THEN n ELSE 0]
    /\ UNCHANGED <<pool, notPool>>

\* lines 642-644: the next player is submitted to the process pool, where a
\* process may take it before the following one is submitted; submit raises
\* once the pool has been shut down
WorkerSubmit(t) ==
    /\ worker[t].status = "submitting"
    /\ worker[t].tosubmit > 0
    /\ IF pool.shut
       THEN /\ worker' = [worker EXCEPT ![t].status = "raised"]
            /\ pool' = [pool EXCEPT !.late = TRUE]
       ELSE /\ worker' = [worker EXCEPT ![t].tosubmit = @ - 1, ![t].queued = @ + 1]
            /\ UNCHANGED pool
    /\ UNCHANGED notPool

\* lines 645-646: every player is submitted; the worker enters the
\* as_completed loop over the futures of the division
WorkerWait(t) ==
    /\ worker[t].status = "submitting"
    /\ worker[t].tosubmit = 0
    /\ worker' = [worker EXCEPT ![t].status = "waiting"]
    /\ UNCHANGED <<pool, notPool>>

\* A free process of the process pool takes a queued conversion
ProcessTake(t) ==
    /\ worker[t].queued > 0
    /\ BusyProcesses < pool.processes
    /\ worker' = [worker EXCEPT ![t].queued = @ - 1, ![t].running = @ + 1]
    /\ UNCHANGED <<pool, notPool>>

\* transform_player ends in its process, by returning or by raising; its
\* future is done
ProcessFinish(t) ==
    /\ worker[t].running > 0
    /\ \E ok \in BOOLEAN :
         worker' = [worker EXCEPT
                      ![t].running = @ - 1,
                      ![t].broken = IF ok THEN @ ELSE @ + 1]
    /\ UNCHANGED <<pool, notPool>>

\* lines 646-647: as_completed yields a future whose conversion raised and
\* future.result() raises in the waiting worker, which then leaves its other
\* conversions to the pool
WorkerRaise(t) ==
    /\ worker[t].status = "waiting"
    /\ worker[t].broken > 0
    /\ worker' = [worker EXCEPT ![t].status = "raised", ![t].broken = @ - 1]
    /\ UNCHANGED <<pool, notPool>>

\* lines 648-656: every future of the division was yielded and none raised;
\* the division result is appended and the loop goes to the next target
\* division
WorkerNextDivision(t) ==
    /\ worker[t].status = "waiting"
    /\ worker[t].queued = 0
    /\ worker[t].running = 0
    /\ worker[t].broken = 0
    /\ worker' = [worker EXCEPT
                    ![t].left = @ - 1,
                    ![t].status = IF worker[t].left = 1 THEN "returned" ELSE "fetching"]
    /\ UNCHANGED <<pool, notPool>>

\* lines 686-692: as_completed yields the future of an ended worker, once;
\* its results are added or its exception is logged
PoolGather(t) ==
    /\ pool.pc = "gather"
    /\ Ended(t)
    /\ worker[t].accounted = 0
    /\ worker' = [worker EXCEPT ![t].accounted = 1]
    /\ UNCHANGED <<pool, notPool>>

\* line 693: the loop is over
PoolLeaveLoop ==
    /\ pool.pc = "gather"
    /\ LoopEnded
    /\ pool' = [pool EXCEPT !.pc = "join_threads"]
    /\ UNCHANGED <<worker, notPool>>

\* line 672, the end of the inner with block: executor.shutdown(wait=True)
\* returns when every worker has ended; then the outer with block (line 669)
\* begins the shutdown of the process pool
PoolJoinThreads ==
    /\ pool.pc = "join_threads"
    /\ \A t \in Tournaments : Ended(t)
    /\ pool' = [pool EXCEPT !.pc = "join_processes", !.shut = TRUE]
    /\ UNCHANGED <<worker, notPool>>

\* line 669, the end of the outer with block: process_pool.shutdown(wait=True)
\* returns when the submitted conversions have run; line 694 returns
PoolReturn ==
    /\ pool.pc = "join_processes"
    /\ \A t \in Tournaments : worker[t].queued = 0 /\ worker[t].running = 0
    /\ pool' = [pool EXCEPT !.pc = "returned"]
    /\ UNCHANGED <<worker, notPool>>

PoolNext ==
    \/ PoolSubmit
    \/ \E t \in Tournaments : WorkerStart(t)
    \/ \E t \in Tournaments : WorkerFetch(t)
    \/ \E t \in Tournaments : WorkerSubmit(t)
    \/ \E t \in Tournaments : WorkerWait(t)
    \/ \E t \in Tournaments : ProcessTake(t)
    \/ \E t \in Tournaments : ProcessFinish(t)
    \/ \E t \in Tournaments : WorkerRaise(t)
    \/ \E t \in Tournaments : WorkerNextDivision(t)
    \/ \E t \in Tournaments : PoolGather(t)
    \/ PoolLeaveLoop
    \/ PoolJoinThreads
    \/ PoolReturn

(***************************************************************************)
(* Specifications                                                          *)
(***************************************************************************)
FetchInit == FetchStart /\ LoadQuiet /\ AliasQuiet /\ PipeQuiet /\ QueryQuiet /\ PoolQuiet
SpecFetch == FetchInit /\ [][FetchNext]_vars

LoadInit == LoadStart /\ FetchQuiet /\ AliasQuiet /\ PipeQuiet /\ QueryQuiet /\ PoolQuiet
SpecLoad == LoadInit /\ [][LoadNext]_vars

AliasInit == AliasStart /\ FetchQuiet /\ LoadQuiet /\ PipeQuiet /\ QueryQuiet /\ PoolQuiet
SpecAlias == AliasInit /\ [][AliasNext]_vars

PipeInit == PipeStart /\ FetchQuiet /\ LoadQuiet /\ AliasQuiet /\ QueryQuiet /\ PoolQuiet
SpecPipeline == PipeInit /\ [][PipeNext]_vars

QueryInit == QueryStart /\ QueryCaches /\ FetchQuiet /\ AliasQuiet /\ PipeQuiet /\ PoolQuiet
SpecQuery == QueryInit /\ [][QueryNext]_vars

\* The executors run every submitted call and the operating system schedules
\* every thread and process: a step that is possible is eventually taken.
PoolInit ==
    PoolStart /\ FetchQuiet /\ LoadQuiet /\ AliasQuiet /\ PipeQuiet /\ QueryQuiet
SpecPools == PoolInit /\ [][PoolNext]_vars /\ WF_vars(PoolNext)

(***************************************************************************)
(* Claims about the caching fetcher                                        *)
(***************************************************************************)
\* The premise of C1: a non-forced call that found a local copy and a stored
\* ETag, and whose HEAD probe succeeded with that same ETag.
EtagMatched ==
    /\ ~dl.force
    /\ dl.preFile.exists
    /\ Truthy(dl.preEtag)
    /\ dl.headRes = "ok"
    /\ dl.remote_etag = dl.preEtag

\* C1: a non-forced fetch whose local copy exists and whose stored ETag equals
\* the ETag of the HEAD probe issues no GET, returns the local copy and leaves
\* the local file and the sidecar as they were; so a forced fetch followed by
\* such a non-forced fetch of the unchanged resource makes one GET in total
\* and both calls return the same content.
C1_EtagMatchReturnsLocal ==
    (dl.pc \notin {"idle", "head"} /\ EtagMatched) =>
        /\ dl.pc = "done"
        /\ dl.gets = 0
        /\ ~dl.sent
        /\ dl.ret = dl.preFile
        /\ file = dl.preFile
        /\ etagFile = dl.preEtag
        /\ (prev.pc = "done" /\ prev.force /\ prev.startChanges = changes) =>
              /\ prev.gets + dl.gets = 1
              /\ dl.ret = prev.ret

C1_Witness ==
    /\ dl.pc = "done"
    /\ EtagMatched
    /\ prev.pc = "done"
    /\ prev.force
    /\ prev.startChanges = changes
    /\ dl.ret = FileOf(srv.body)

\* The GET of the call was answered (no transport error) with this status class.
Answered == dl.sent /\ dl.response.status # TransportError
Is2xx(status) == status >= 200 /\ status < 300
GetFailed ==
    dl.sent /\ (dl.response.status = TransportError
                \/ (~Is2xx(dl.response.status) /\ dl.response.status # 304))

\* Every body a GET can be answered with.
CompleteBodies == Bodies \cup {BodyMulti, <<>>}

\* C2: a fetch whose GET fails (transport error, or a status that is neither
\* 2xx nor 304) fails and leaves the local file and the sidecar as they were
\* before the call, and the local file never holds a partial body, not even
\* after an interrupt during the write.
C2_FailedGetKeepsCacheAndNoPartialBody ==
    /\ (GetFailed /\ dl.pc \in {"done", "failed"}) =>
          /\ dl.pc = "failed"
          /\ file = dl.preFile
          /\ etagFile = dl.preEtag
    /\ file.exists => file.data \in CompleteBodies

\* C3: when the HEAD probe of a non-forced fetch fails, the fetch goes on with
\* one GET, never retried, and that GET carries no If-None-Match header.
C3_HeadFailureFallsBackToUnconditionalGet ==
    (~dl.force /\ dl.headRes = "fail") =>
        /\ dl.pc = "failed" => dl.sent
        /\ dl.gets <= 1
        /\ dl.sent => dl.inm = NoEtag

\* C4: a GET answered 304 while a local copy exists returns the local copy and
\* changes neither the local file nor the sidecar.
C4_NotModifiedKeepsLocal ==
    (Answered /\ dl.response.status = 304 /\ dl.preFile.exists) =>
        /\ dl.pc = "done"
        /\ dl.ret = dl.preFile
        /\ file = dl.preFile
        /\ etagFile = dl.preEtag

C4_Witness ==
    /\ Answered
    /\ dl.response.status = 304
    /\ dl.preFile.exists
    /\ dl.pc = "done"
    /\ dl.inm = dl.preEtag
    /\ dl.ret.data \in Bodies

\* C5: after a fetch whose GET was answered with a successful status other
\* than 304, the local file equals the body of the response and the sidecar
\* holds the ETag of that response, the previously stored ETag being replaced.
C5_SuccessStoresBodyAndItsEtag ==
    (dl.pc = "done" /\ Answered /\ Is2xx(dl.response.status)) =>
        /\ file = FileOf(dl.response.body)
        /\ etagFile = dl.response.etag

(***************************************************************************)
(* Claims about the reference data and its alias maps                      *)
(***************************************************************************)
\* C6: after any sequence of loads and forced reloads, for each category the
\* alias map the next resolve call consults is derived from the currently
\* loaded records of that category, never from a previously loaded dataset.
C6_AliasMapFromLoadedRecords ==
    \A k \in Kinds :
        CachedMapUsable(aliasCache[k]) =>
            /\ dataCache[DataNameOf(k)].exists
            /\ aliasCache[k].map = BuildAliasMap(k, dataCache[DataNameOf(k)].records)

(***************************************************************************)
(* Claims about the species alias index                                    *)
(***************************************************************************)
InputEntries == SeqToSet(pokedexIn)
TokensOf(e) == {to_id(n) : n \in NamesOf(impl, e)} \ {<<>>}

\* C7: in the species alias index build no insertion replaces an existing
\* mapping, and a token produced by both a base-form record and a forme
\* variant maps to the base-form record, whatever the order of the two
\* records in the dataset.
C7_BaseFormWinsCollisions ==
    /\ ~replaced
    /\ BuildDone =>
         \A b \in InputEntries, f \in InputEntries :
            (IsBaseEntry(b) /\ IsFormeEntry(f)) =>
                \A t \in TokensOf(b) \cap TokensOf(f) : aliasMap[t] = b.id

(***************************************************************************)
(* Claims about the extraction pipeline                                    *)
(***************************************************************************)
\* The k-th division result of worker t holds the conversion of every
\* player of the payload fetched for it.
CompleteDivision(t, k) ==
    LET d == task[t].ret[k]
        payload == task[t].served[k]
    IN /\ Len(d.players) = Len(payload)
       /\ \A i \in DOMAIN payload :
             transform_player(payload[i], showdown) \in SeqToSet(d.players)

\* C8: when process_tournaments has ended, it has returned an aggregate, and
\* that aggregate holds the complete division results of every tournament
\* whose own processing succeeded, whether or not the processing of another
\* tournament raised and whatever the order in which the workers finished.
C8_PartialFailureIsolation ==
    pipePc \in {"done", "aborted"} =>
        /\ pipePc = "done"
        /\ \A t \in Tournaments :
              task[t].status = "done" =>
                  \A k \in DOMAIN task[t].ret :
                      /\ task[t].ret[k] \in SeqToSet(results)
                      /\ CompleteDivision(t, k)

C8_Witness ==
    /\ pipePc = "done"
    /\ \E t \in Tournaments : task[t].status = "failed"
    /\ \E t \in Tournaments :
          /\ task[t].status = "done"
          /\ task[t].ret # <<>>
          /\ Len(task[t].ret[1].players) = 2
          /\ task[t].ret[1] \in SeqToSet(results)

\* C9: in every division result produced by process_tournament the players
\* are in ascending order of placing and every player with a placing
\* precedes every player without one, for all integer placings.
C9_PlayersSortedByPlacing ==
    \A t \in Tournaments : \A k \in DOMAIN task[t].ret :
        LET ps == task[t].ret[k].players IN
        \A i, j \in DOMAIN ps :
            i < j =>
                /\ (Placed(ps[i]) /\ Placed(ps[j])) => ps[i].placing[1] <= ps[j].placing[1]
                /\ ~(~Placed(ps[i]) /\ Placed(ps[j]))

\* Some player conversion has been submitted to a worker.
Submitted == \E t \in Tournaments : task[t].status = "converting" \/ task[t].ret # <<>>

\* The dataset and the four alias maps of the ShowdownData object are built.
Constructed ==
    /\ showdown.built
    /\ \A n \in DataNames : dataCache[n].exists
    /\ showdown.pokedex = dataCache["pokedex"].records
    /\ showdown.moves = dataCache["moves"].records
    /\ showdown.items = dataCache["items"].records
    /\ showdown.abilities = dataCache["abilities"].records
    /\ showdown.learnsets = dataCache["learnsets"].records
    /\ showdown.formats_data = dataCache["formats_data"].records
    /\ showdown.formats = dataCache["formats"].records
    /\ showdown.species_alias_map = BuildSpeciesAliasMap("tte", showdown.pokedex)
    /\ showdown.move_alias_map = BuildSimpleAliasMap(showdown.moves, TRUE)
    /\ showdown.item_alias_map = BuildSimpleAliasMap(showdown.items, FALSE)
    /\ showdown.ability_alias_map = BuildSimpleAliasMap(showdown.abilities, FALSE)

\* C10: in a pipeline run the reference dataset and all four alias maps are
\* completely constructed before the first player conversion is submitted,
\* and from then on no step, a conversion in particular, modifies the
\* dataset or an alias map.
C10_BuildThenFreeze ==
    /\ [](Submitted => Constructed)
    /\ [][Submitted => /\ showdown' = showdown
                       /\ dataCache' = dataCache
                       /\ aliasCache' = aliasCache]_vars

C10_Witness ==
    /\ showdown.built
    /\ dataChanges > 0
    /\ \E t \in Tournaments :
          /\ task[t].status = "converting"
          /\ \E i \in DOMAIN task[t].extracted : task[t].extracted[i].is_valid

(***************************************************************************)
(* Claims about error propagation, conversion, legality and eligibility    *)
(***************************************************************************)

\* C11: the error propagation policy of a run: run_pipeline is left by an
\* exception only for a reference-data parse failure; a transport failure of
\* any fetch is contained (the run still completes with an aggregate).
C11_OnlyParseFailureHalts ==
    pipePc = "failed" => pipeErr = "parse"

\* The slot with the single move k of the slot
OnlyMove(slot, k) == [slot EXCEPT !.badges = <<slot.badges[k]>>]

\* C12: convert_decklist_entry returns an extraction for every slot, with one
\* move entry per move of the slot; each move is resolved on its own (its entry
\* is the one the slot with that move alone gets), and a move that does not
\* resolve gets an entry with an absent id and is_legal false and an issue
\* that mentions its raw label.
C12_UnresolvedMoveIsContained ==
    Returned("convert") =>
        LET slot == query.slot
            sd == ShowdownOf(query.data)
        IN /\ answer.raw_species = slot.name
           /\ DOMAIN answer.moves = DOMAIN slot.badges
           /\ \A k \in DOMAIN slot.badges :
                /\ answer.moves[k].raw_move = slot.badges[k]
                /\ answer.moves[k]
                     = convert_decklist_entry(OnlyMove(slot, k), sd).moves[1]
                /\ resolve_move_id(sd, slot.badges[k]) = None =>
                     /\ answer.moves[k].move_id = None
                     /\ ~answer.moves[k].is_legal
                     /\ \E i \in DOMAIN answer.issues :
                          /\ Contains(answer.issues[i], slot.badges[k])
                          /\ Contains(answer.issues[i], <<"n", "o", "t", " ", "f", "o", "u", "n", "d">>)

\* The slot of the test: two learnable moves and one unknown move
C12_Witness ==
    /\ Returned("convert")
    /\ query.slot = FullSlot(<<"F", "l", "u", "t", "t", "e", "r", " ", "M", "a", "n", "e">>, <<"S", "t", "e", "l", "l", "a", "r">>, <<"P", "r", "o", "t", "o", "s", "y", "n", "t", "h", "e", "s", "i", "s">>, <<"F", "o", "c", "u", "s", " ", "S", "a", "s", "h">>,
                             <<<<"S", "h", "a", "d", "o", "w", " ", "B", "a", "l", "l">>, <<"M", "o", "o", "n", "b", "l", "a", "s", "t">>, <<"N", "o", "n", "e", "x", "i", "s", "t", "e", "n", "t", " ", "M", "o", "v", "e">>>>)
    /\ answer.moves[1].move_id = <<"s", "h", "a", "d", "o", "w", "b", "a", "l", "l">> /\ answer.moves[1].is_legal
    /\ answer.moves[2].move_id = <<"m", "o", "o", "n", "b", "l", "a", "s", "t">> /\ answer.moves[2].is_legal
    /\ answer.moves[3].move_id = None /\ ~answer.moves[3].is_legal
    /\ \E i \in DOMAIN answer.issues : Contains(answer.issues[i], <<"N", "o", "n", "e", "x", "i", "s", "t", "e", "n", "t", " ", "M", "o", "v", "e">>)

\* C13: a move entry is legal exactly when the species resolved, the move
\* resolved and the species can learn the move; when both resolved and the
\* species cannot learn the move, an issue '<species> cannot learn <move>'
\* names them by the display names of their records.
C13_LegalIffResolvedAndLearnable ==
    Returned("convert") =>
        LET slot == query.slot
            sd == ShowdownOf(query.data)
            species_id == resolve_species_id(sd, slot.name)
        IN \A k \in DOMAIN slot.badges :
             LET move_id == resolve_move_id(sd, slot.badges[k])
                 both == species_id # None /\ move_id # None
             IN /\ answer.moves[k].is_legal
                     <=> (both /\ validate_move_learnset(sd, species_id, move_id))
                /\ (both /\ ~validate_move_learnset(sd, species_id, move_id)) =>
                     /\ ~answer.moves[k].is_legal
                     /\ \E i \in DOMAIN answer.issues :
                          answer.issues[i]
                            = EntryOf(sd.pokedex, species_id).name
                              \o <<" ", "c", "a", "n", "n", "o", "t", " ", "l", "e", "a", "r", "n", " ">>
                              \o EntryOf(sd.moves, move_id).name

\* Conkeldurr with a move it learns and, under a misspelt label, one it does not
C13_Witness ==
    /\ Returned("convert")
    /\ query.slot.name = <<"C", "o", "n", "k", "e", "l", "d", "u", "r", "r">>
    /\ query.slot.badges = <<<<"S", "h", "a", "d", "o", "w", " ", "B", "a", "l", "l">>, <<"M", "o", "o", "n", "b", "l", "s", "t">>>>
    /\ answer.moves[1].is_legal
    /\ answer.moves[2].move_id = <<"m", "o", "o", "n", "b", "l", "a", "s", "t">>
    /\ ~answer.moves[2].is_legal
    /\ \E i \in DOMAIN answer.issues :
          answer.issues[i] = <<"C", "o", "n", "k", "e", "l", "d", "u", "r", "r", " ", "c", "a", "n", "n", "o", "t", " ", "l", "e", "a", "r", "n", " ", "M", "o", "o", "n", "b", "l", "a", "s", "t">>

\* issues is the parts one after the other
RECURSIVE InOrder(_, _)
InOrder(issues, parts) ==
    IF parts = <<>> THEN issues = <<>>
    ELSE /\ Len(issues) >= Len(Head(parts))
         /\ SubSeq(issues, 1, Len(Head(parts))) = Head(parts)
         /\ InOrder(SubSeq(issues, Len(Head(parts)) + 1, Len(issues)), Tail(parts))

\* C14: a transformed player is valid exactly when none of its slots has an
\* issue; the player's issues are the issues of its slots, concatenated in
\* roster order; a player with an empty roster is valid.
C14_PlayerIssuesAreSlotIssues ==
    Returned("transform") =>
        LET roster == query.player.decklist
            sd == ShowdownOf(query.data)
            slotIssues == [k \in DOMAIN roster |->
                              convert_decklist_entry(roster[k], sd).issues]
        IN /\ answer.is_valid <=> (\A k \in DOMAIN roster : slotIssues[k] = <<>>)
           /\ InOrder(answer.issues, slotIssues)
           /\ DOMAIN answer.pokemon = DOMAIN roster
           /\ roster = <<>> => answer.is_valid

\* A roster of two slots that both have issues, with a clean roster and the
\* empty roster as the other cases
C14_Witness ==
    /\ Returned("transform")
    /\ Len(query.player.decklist) = 2
    /\ answer.pokemon[1].issues # <<>>
    /\ answer.pokemon[2].issues # <<>>
    /\ answer.pokemon[1].raw_species # answer.pokemon[2].raw_species
    /\ ~answer.is_valid
    /\ answer.issues = answer.pokemon[1].issues \o answer.pokemon[2].issues

\* The learnset of a record of the dataset
LearnsetOf(data, id) == MapGet(Datasets[data].learnsets, id, {})

\* The id of the base species' own record: the record the base-species
\* reference of the species names, if the dataset has it
BaseRecordIds(data, species_id) ==
    LET pokedex == Datasets[data].pokedex
        base == EntryOf(pokedex, species_id).baseSpecies
    IN IF base = None THEN {}
       ELSE {id \in IdsOf(pokedex) : id = to_id(base)}

\* C15: canLearn(species, move) is true if and only if the move is in the
\* learnset of the species, or the species record declares a base species and
\* the move is in the learnset of that base species' own record; it is false
\* when the move is only in the learnset of some other record.
C15_CanLearnOwnOrBaseLearnset ==
    Returned("canlearn") =>
        (answer <=>
            \/ query.move \in LearnsetOf(query.data, query.species)
            \/ \E b \in BaseRecordIds(query.data, query.species) :
                  query.move \in LearnsetOf(query.data, b))

\* C16: for every species s and format f, if a category tag carried by the
\* record of s is an entry of the banlist of f, the id of f is not among the
\* valid formats of s, even when the id of s is not in that banlist.
C16_TagBanExcludesFormat ==
    Returned("formats") =>
        LET d == Datasets[query.data]
            tags == SeqToSet(EntryOf(d.pokedex, query.species).tags)
        IN \A i \in DOMAIN d.formats :
              (tags \cap SeqToSet(d.formats[i].banlist) # {})
                  => FormatId(d.formats[i]) \notin SeqToSet(answer)

\* Flutter Mane carries Paradox, which Reg H bans; its id is not on that
\* banlist and another format stays valid for it
C16_Witness ==
    /\ Returned("formats")
    /\ query.data = "vgc"
    /\ query.species = <<"f", "l", "u", "t", "t", "e", "r", "m", "a", "n", "e">>
    /\ <<"g", "e", "n", "9", "v", "g", "c", "2", "0", "2", "5", "r", "e", "g", "h">> \notin SeqToSet(answer)
    /\ <<"g", "e", "n", "9", "v", "g", "c", "2", "0", "2", "5", "r", "e", "g", "i">> \in SeqToSet(answer)
    /\ \E i \in DOMAIN Data_vgc.formats :
          /\ FormatId(Data_vgc.formats[i]) = <<"g", "e", "n", "9", "v", "g", "c", "2", "0", "2", "5", "r", "e", "g", "h">>
          /\ <<"P", "a", "r", "a", "d", "o", "x">> \in SeqToSet(Data_vgc.formats[i].banlist)
          /\ \A j \in DOMAIN Data_vgc.formats[i].banlist :
                to_id(Data_vgc.formats[i].banlist[j]) # query.species

\* The species is marked nonstandard (Past, Future or Unobtainable) by its
\* pokedex record or by its format-metadata record
MarkedNonstandard(data, species_id) ==
    \/ EntryOf(Datasets[data].pokedex, species_id).isNonstandard
          \in {<<"P", "a", "s", "t">>, <<"F", "u", "t", "u", "r", "e">>, <<"U", "n", "o", "b", "t", "a", "i", "n", "a", "b", "l", "e">>}
    \/ MapGet(Datasets[data].formats_data, species_id, None)
          \in {<<"P", "a", "s", "t">>, <<"F", "u", "t", "u", "r", "e">>, <<"U", "n", "o", "b", "t", "a", "i", "n", "a", "b", "l", "e">>}

\* C17: no eligibility operation reports a format valid for a species that
\* its pokedex record or its format-metadata record marks Past, Future or
\* Unobtainable: determine_valid_formats returns the empty list for it (and
\* otherwise the surviving ids in ascending order), and
\* validate_species_in_format returns false for it.
C17_NonstandardNeverEligible ==
    /\ Returned("formats") =>
          /\ MarkedNonstandard(query.data, query.species) => answer = <<>>
          /\ \A i, j \in DOMAIN answer : i < j => StrLess(answer[i], answer[j])
    /\ Returned("informat") =>
          \A id \in IdsOf(Datasets[query.data].pokedex) :
             (to_id(query.species) = id /\ MarkedNonstandard(query.data, id))
                 => answer = FALSE

(***************************************************************************)
(* Claims about species and move resolution                                *)
(***************************************************************************)

\* The alias index, the descriptor-mapped label and the base of the label as
\* the resolver asked sees them
SpeciesIndexAsked ==
    IF query.impl = "tte" THEN ShowdownOf(query.data).species_alias_map
    ELSE ResolverAliases[query.data]

MappedLabelAsked ==
    IF query.impl = "tte" THEN normalize_species_label(query.label)
    ELSE _normalize_species_label(query.label)

BaseAsked ==
    IF query.impl = "tte" THEN Strip(BeforeFirst(Strip(query.label), "["))
    ELSE _extract_base_and_descriptor(query.label)[1]

\* C18: a species resolution returns the id of the first of the normalized
\* descriptor-mapped label, the normalized raw label and the normalized base
\* alone, in this order, that is a key of the species alias index; only when
\* none of the three is a key may approximate matching decide the result.
C18_FirstOfThreeLookupsWins ==
    Returned("species") =>
        LET lookups == <<to_id(MappedLabelAsked), to_id(query.label), to_id(BaseAsked)>>
            hits == {i \in 1..3 : lookups[i] \in DOMAIN SpeciesIndexAsked}
        IN hits # {} =>
              answer = SpeciesIndexAsked[lookups[CHOOSE i \in hits : \A j \in hits : i <= j]]

\* The records the descriptor labels of the species dataset name
DescriptorIds ==
    <<"S", "l", "o", "w", "b", "r", "o", " ", "[", "G", "a", "l", "a", "r", "i", "a", "n", " ", "F", "o", "r", "m", "]">> :> <<"s", "l", "o", "w", "b", "r", "o", "g", "a", "l", "a", "r">> @@
    <<"T", "a", "u", "r", "o", "s", " ", "[", "P", "a", "l", "d", "e", "a", "n", " ", "F", "o", "r", "m", " ", "-", " ", "A", "q", "u", "a", " ", "B", "r", "e", "e", "d", "]">> :> <<"t", "a", "u", "r", "o", "s", "p", "a", "l", "d", "e", "a", "a", "q", "u", "a">> @@
    <<"B", "a", "s", "c", "u", "l", "e", "g", "i", "o", "n", " ", "[", "F", "e", "m", "a", "l", "e", "]">> :> <<"b", "a", "s", "c", "u", "l", "e", "g", "i", "o", "n", "f">> @@
    <<"L", "a", "n", "d", "o", "r", "u", "s", " ", "[", "I", "n", "c", "a", "r", "n", "a", "t", "e", " ", "F", "o", "r", "m", "e", "]">> :> <<"l", "a", "n", "d", "o", "r", "u", "s">>

\* C19: with slowbrogalar, taurospaldeaaqua, basculegionf and landorus
\* loaded, 'Slowbro [Galarian Form]', 'Tauros [Paldean Form - Aqua Breed]'
\* and 'Basculegion [Female]' resolve to exactly those ids and
\* 'Landorus [Incarnate Forme]', whose descriptor holds only dropped words,
\* resolves as the base alone, under both resolvers; the conversion of a slot
\* with such a label carries the id and no 'Unable to resolve species' issue.
C19_DescriptorLabelsResolve ==
    /\ (Returned("species") /\ query.label \in DOMAIN DescriptorIds)
          => answer = DescriptorIds[query.label]
    /\ (Returned("convert") /\ query.data = "species"
                            /\ query.slot.name \in DOMAIN DescriptorIds)
          => /\ answer.showdown_id = DescriptorIds[query.slot.name]
             /\ \A i \in DOMAIN answer.issues :
                    ~Contains(answer.issues[i], <<"U", "n", "a", "b", "l", "e", " ", "t", "o", " ", "r", "e", "s", "o", "l", "v", "e", " ", "s", "p", "e", "c", "i", "e", "s">>)

C19_Witness ==
    /\ Returned("convert")
    /\ query.slot.name = <<"T", "a", "u", "r", "o", "s", " ", "[", "P", "a", "l", "d", "e", "a", "n", " ", "F", "o", "r", "m", " ", "-", " ", "A", "q", "u", "a", " ", "B", "r", "e", "e", "d", "]">>
    /\ answer.showdown_id = <<"t", "a", "u", "r", "o", "s", "p", "a", "l", "d", "e", "a", "a", "q", "u", "a">>
    /\ answer.issues = <<>>

\* The results a resolver can return for a move label
MoveOutcomes(resolver, dataset, name) ==
    IF resolver = "tte" THEN {resolve_move_id(ShowdownOf(dataset), name)}
    ELSE {MoveResolveInOrder(MoveResolverAliases[dataset], name, order) :
            order \in OrdersOf(MoveResolverTokens(name))}

\* C20: resolving a move label followed by a parenthesized battle-mode
\* qualifier, '(Singles)' or '(Doubles)', returns what resolving the label
\* alone returns.
C20_ModeQualifierIsIgnored ==
    (Returned("move") /\ query.qualifier # None) =>
        \A plain \in MoveOutcomes(query.impl, query.data, query.label) : answer = plain

(***************************************************************************)
(* Claims about approximate matching, loading, determinism and the pools   *)
(***************************************************************************)

\* The label a move query resolves and, for move_resolver, its tokens
MoveAsked == Qualified(query.label, query.qualifier)

LongestTokens(tokens) == {t \in tokens : \A u \in tokens : Len(u) <= Len(t)}

\* key reaches the 0.72 similarity ratio against seed and no key scores higher
BestScoring(key, seed, keys) ==
    /\ 200 * MatchCount(key, seed) >= CutoffPercent * (Len(key) + Len(seed))
    /\ \A other \in keys :
          MatchCount(other, seed) * (Len(key) + Len(seed))
              <= MatchCount(key, seed) * (Len(other) + Len(seed))

\* C21: move_resolver's resolve_move_id returns the id of a token that is an
\* exact key of the alias index when one of its normalized candidates is
\* one; otherwise it matches a longest candidate token against all keys and
\* returns the id of a best-scoring key whose ratio is at least 0.72, and
\* absent when no key reaches 0.72. 'Hidro Pomp' resolves as 'Hydro Pump'
\* does and 'Totally Made Up Move' resolves to absent.
C21_ApproximateOnlyWithoutExactKey ==
    (Returned("move") /\ query.impl = "mr") =>
        LET index == MoveResolverAliases[query.data]
            keys == DOMAIN index
            tokens == MoveResolverTokens(MoveAsked)
        IN /\ IF tokens \cap keys # {}
              THEN \E t \in tokens \cap keys : answer = index[t]
              ELSE \E seed \in LongestTokens(tokens) :
                      \/ /\ answer = None
                         /\ \A k \in keys : ~BestScoring(k, seed, {k})
                      \/ \E k \in keys : BestScoring(k, seed, keys) /\ answer = index[k]
           /\ MoveAsked = <<"H", "i", "d", "r", "o", " ", "P", "o", "m", "p">> =>
                 /\ answer # None
                 /\ MoveOutcomes("mr", query.data, <<"H", "y", "d", "r", "o", " ", "P", "u", "m", "p">>) = {answer}
           /\ MoveAsked = <<"T", "o", "t", "a", "l", "l", "y", " ", "M", "a", "d", "e", " ", "U", "p", " ", "M", "o", "v", "e">> => answer = None

C21_Witness ==
    /\ Returned("move") /\ query.impl = "mr"
    /\ MoveAsked = <<"H", "i", "d", "r", "o", " ", "P", "o", "m", "p">>
    /\ MoveResolverTokens(MoveAsked) \cap DOMAIN MoveResolverAliases[query.data] = {}
    /\ answer = <<"h", "y", "d", "r", "o", "p", "u", "m", "p">>

\* C22: a load_showdown_data call that returns has invoked the fetcher
\* exactly once for each reference resource, every fetch before the first
\* parse, and the records it returns are those of the local files as they
\* are when the call returns, after its fetches, not records held over from
\* an earlier load.
C22_LoadReturnsWhatItFetched ==
    lastLoad.returned =>
        LET ev == lastLoad.events
            fetches(n) == {i \in DOMAIN ev : ev[i].do = "fetch" /\ ev[i].name = n}
        IN /\ \A n \in DataNames : Cardinality(fetches(n)) = 1
           /\ \A i, j \in DOMAIN ev :
                 (ev[i].do = "fetch" /\ ev[j].do = "parse") => i < j
           /\ \A n \in DataNames :
                 /\ lastLoad.files[n].exists
                 /\ lastLoad.records[n] = lastLoad.files[n].records

\* to_id of the implementation a to_id query names
ToIdOf(which, value) == IF which = "tte" THEN tte_to_id(value) ELSE to_id(value)

\* C23: to_id returns, for every input string, a token made only of lowercase
\* ASCII letters and digits, the empty token for the empty string, and
\* applying it to its own result gives that result again.
C23_ToIdIsIdempotent ==
    Returned("toid") =>
        /\ \A i \in DOMAIN answer : IsLowerAlnum(answer[i])
        /\ query.value = <<>> => answer = <<>>
        /\ ToIdOf(query.impl, answer) = answer

C23_Witness ==
    /\ Returned("toid") /\ query.impl = "sm"
    /\ query.value = <<"UEACUTE", "B", "RSQUO">>
    /\ answer = <<"e", "b">>

\* The results species_resolver can return for a species label
SpeciesOutcomes(dataset, name) ==
    {ResolveInOrder(ResolverAliases[dataset], name, order) :
        order \in OrdersOf(ResolverTokens(name))}

\* C24: for a fixed alias index and a fixed raw label the resolvers of
\* species_resolver and move_resolver return the same id whatever the order
\* in which the set of candidate tokens is iterated.
C24_ResolutionIgnoresTokenOrder ==
    /\ (Returned("species") /\ query.impl = "sr") =>
          SpeciesOutcomes(query.data, query.label) = {answer}
    /\ (Returned("move") /\ query.impl = "mr") =>
          MoveOutcomes("mr", query.data, MoveAsked) = {answer}

\* The division results of tournament t in the aggregate, and the target
\* divisions of its worker: those it has finished and those it had left
ResultsOf(t) == SelectSeq(results, LAMBDA d : d.tournament = t)
TargetDivisions(t) == [k \in DOMAIN task[t].ret |-> task[t].ret[k].division] \o task[t].todo

\* C25: the aggregate process_tournaments returns holds, for every
\* tournament, either one result for each of its target divisions or no
\* result of it at all; when the fetch or a conversion of one division fails,
\* the divisions of that tournament processed before are not in the
\* aggregate.
C25_AllOrNothingPerTournament ==
    pipePc = "done" =>
        \A t \in Tournaments :
            /\ \/ ResultsOf(t) = <<>>
               \/ [k \in DOMAIN ResultsOf(t) |-> ResultsOf(t)[k].division] = TargetDivisions(t)
            /\ task[t].status = "failed" => ResultsOf(t) = <<>>

C25_Witness ==
    /\ pipePc = "done"
    /\ task["t1"].status = "failed"
    /\ Len(task["t1"].ret) = 1
    /\ task["t1"].ret[1].players # <<>>
    /\ task["t1"].todo = <<"seniors">>
    /\ ResultsOf("t1") = <<>>
    /\ ResultsOf("t2") # <<>>

\* C26: a fetch never stores the body of a 304 response: when the GET of a
\* call is answered 304, whatever the cache held when the call began (a
\* sidecar without its local file included), the call writes nothing and
\* ends with the local file it found, which exists.
C26_NotModifiedBodyIsNeverStored ==
    (Answered /\ dl.response.status = 304 /\ dl.pc \in {"write_etag", "done"}) =>
        /\ file = dl.preFile
        /\ file.exists

\* C27: after any sequence of fetch calls against any sequence of server
\* responses, whenever a local file and a stored ETag both exist, the stored
\* ETag is the ETag the server served for exactly the content now in the
\* local file.
C27_StoredEtagDenotesLocalContent ==
    (dl.pc \in {"done", "failed"} /\ file.exists /\ Truthy(etagFile)) =>
        /\ file.data \in Bodies
        /\ etagFile = EtagOf(file.data)

\* C28: after the species alias index is built, the canonical id of every
\* record resolves to that record, whatever the order of the records and the
\* baseSpecies, forme and otherFormes values of the other records.
C28_EveryIdResolvesToItself ==
    BuildDone =>
        \A e \in InputEntries :
            /\ e.id \in DOMAIN aliasMap
            /\ aliasMap[e.id] = e.id

\* The loaded move records whose display name is the label
MovesNamed(dataset, label) ==
    {Datasets[dataset].moves[k].id : k \in {j \in DOMAIN Datasets[dataset].moves :
                                              Datasets[dataset].moves[j].name = label}}

\* C29: an exactly spelled move name resolves to its own record, also when
\* the name without its final word is the name of another loaded move
\* ('Thunder Punch' while 'Thunder' is loaded).
C29_ExactMoveNameResolvesToItself ==
    (Returned("move") /\ query.qualifier = None) =>
        \A id \in MovesNamed(query.data, query.label) : answer = id

\* C30: for every list of tournaments and all pool sizes process_tournaments
\* eventually returns; no tournament worker waits forever on its player
\* conversions; when it returns every tournament has been accounted for
\* exactly once (results added or failure logged); the shared process pool
\* is shut down only after every tournament worker has ended, and no
\* conversion is submitted to the pool after its shutdown.
C30_ProcessTournamentsReturns ==
    /\ <>(pool.pc = "returned")
    /\ \A t \in Tournaments : (worker[t].status = "waiting") ~> Ended(t)
    /\ [](pool.pc = "returned" =>
             \A t \in Tournaments :
                 /\ worker[t].accounted = 1
                 /\ Ended(t)
                 /\ worker[t].queued = 0 /\ worker[t].running = 0)
    /\ [](pool.shut => \A t \in Tournaments : Ended(t))
    /\ [](~pool.late)

C30_Witness ==
    /\ pool.pc = "returned"
    /\ pool.max_workers = 1
    /\ worker["t1"].status = "returned"
    /\ worker["t2"].status = "raised"

====
